---- MODULE Spec2Model ----
(***************************************************************************)
(* Smart-home platform: the notification service (session registry,        *)
(* delivery fan-out over WebSocket connections and the Redis relay), the    *)
(* automation service (rule matching and command emission) and the queue   *)
(* consumers of the device service.                                         *)
(***************************************************************************)
EXTENDS Integers, Sequences, FiniteSets, TLC

\* ------------------------------------------------------------------ bounds
MaxConns == 2
MaxNotifs == 1
MaxMsgs == 2
MaxTicks == 2
MaxPending == 3

\* ------------------------------------------------------------ value domains
\* A falsy userId (undefined, null, 0): `data.userId` / `notification.userId`
\* are tested for truthiness.
Null == 0
Users == {1, 7}
Procs == {"A", "B"}
Conns == 1 .. MaxConns

\* Event types of the log broker; the last one is not known to the switch.
KnownTypes ==
    {"device.state_changed", "device.added", "motion.detected", "security.alert",
     "automation.executed", "automation.created", "inventory.updated"}
EventTypes == {"device.state_changed", "inventory.updated", "firmware.updated"}

VARIABLES
    connProc,     \* the process whose WebSocket server accepted the connection
    readyState,   \* ws.readyState of every connection ("NONE" before accept)
    wsUserId,     \* ws.userId
    isAlive,      \* ws.isAlive
    clients,      \* per process: the Map userId -> Set of connections
    sent,         \* per connection: the notifications written to it, in order
    relay,        \* per process: relayed messages not yet handled by redisSub
    ingested,     \* the notifications dispatched so far (id = position)
    condIn,       \* checkConditions: the `conditions` argument
    stateIn,      \* checkConditions: the `currentState` argument
    condOut,      \* checkConditions: whether it was called, and its result
    autoChannel,  \* automation service: rabbitChannel ("undefined" or "open")
    enabled,      \* Automation.enabled of every rule
    lastExecuted, \* Automation.lastExecuted of every rule (0: never set)
    cmdLog,       \* every message sent to the device.command queue, in order
    cmdHead,      \* how many of them the device service has consumed
    autoEvents,   \* every message sent to the automation-events topic
    evH,          \* automation service: the eachMessage handler in progress
    trH,          \* automation service: the automation.trigger handler in progress
    msgs,         \* messages taken from device-events and automation.trigger,
                  \* and requests to the execute endpoint
    execLog,      \* history: one record per rule execution started
    settled,      \* history: how the latest queue message handled was settled
    deviceState,  \* device service: devices.state by device id
    statusLog,    \* every message sent to the device.status queue, in order
    statusHead,   \* how many of them the notification service has consumed
    handled,      \* history: one record per message the automation service took
    lastReply,    \* per connection: the latest frame received and the reply sent
    probe,        \* history: the probe of the latest tick ("none", "sent", "answered")
    terminated,   \* history: the tick at which the heartbeat last terminated it (0: never)
    missed,       \* history: ticks that found the connection since its last pong
    ticks,        \* per process: heartbeat ticks so far
    sendFails,    \* the connections whose ws.send() throws
    lastCall,     \* history: the latest call of sendToUser or broadcastToAll
    autoHead,     \* automation-events messages the notification service consumed
    oddPayload,   \* history, per handler: its latest payload of an unusual shape
    normIn,       \* normalization: the event given to the switch
    normOut,      \* normalization: whether it ran, and the Notification built
    partHead,     \* messages of the device-events partition consumed so far
    rabbit,       \* per service: its connection to the queue broker
    pending,      \* per service: calls of connectRabbitMQ scheduled or running
    brokerUp,     \* whether the queue broker accepts connections
    live,         \* per service: open connections to the queue broker with a consumer
    kafkaHandlers, \* notification service: consumer.crash listeners on kafkaConsumer
    kafkaPending, \* notification service: calls of connectKafka scheduled or running
    lastCrash,    \* history: the latest consumer crash and the reconnects it scheduled
    poison,       \* unparseable messages on the device.status queue
    lastPut,      \* history: the latest PUT /api/devices/:id/state and its answer
    devHead,      \* automation-events messages the device service consumed
    devEvents     \* device-events: the device.state_changed events of the device service

notifVars == <<connProc, readyState, wsUserId, isAlive, clients, sent, relay, ingested>>
condVars == <<condIn, stateIn, condOut>>
engineVars == <<autoChannel, enabled, lastExecuted, cmdLog, cmdHead, autoEvents, evH, trH,
                msgs, execLog, settled, handled>>
deviceVars == <<deviceState, statusLog, statusHead>>

sessionVars == <<lastReply, probe, terminated, missed, ticks>>
deliveryVars == <<sendFails, lastCall, autoHead>>

auxVars == <<oddPayload, normIn, normOut, partHead>>
brokerVars == <<rabbit, pending, brokerUp>>

extVars == <<live, kafkaHandlers, kafkaPending, lastCrash, poison, lastPut, devHead,
             devEvents>>

vars == <<notifVars, condVars, engineVars, deviceVars, sessionVars, deliveryVars, auxVars,
          brokerVars, extVars>>

\* ------------------------------------------------------------- registry
EmptyMap == [u \in {} |-> {}]

\* clients.has(u)
Has(p, u) == u \in DOMAIN clients[p]

\* The user sets of the registries that hold connection c.
SetsHolding(c) == {u \in Users : \E p \in Procs : Has(p, u) /\ c \in clients[p][u]}

\* The close handler without `if (size === 0) clients.delete(userId)`.
Unregister_KeepEmpty(m, c, u) ==
    IF u = Null \/ u \notin DOMAIN m THEN m ELSE [m EXCEPT ![u] = @ \ {c}]

\* ws.on('close'): the registry after the handler, for a connection whose
\* ws.userId is u.
Unregister(m, c, u) ==
    IF u = Null \/ u \notin DOMAIN m
    THEN m
    ELSE IF m[u] \ {c} = {}
         THEN [v \in DOMAIN m \ {u} |-> m[v]]
         ELSE [m EXCEPT ![u] = @ \ {c}]

\* The authenticate branch taking a frame from a connection that is in the
\* set already as a sign-off.
Register_Toggle(m, c, u) ==
    IF u \in DOMAIN m /\ c \in m[u]
    THEN Unregister(m, c, u)
    ELSE IF u \in DOMAIN m
         THEN [m EXCEPT ![u] = @ \cup {c}]
         ELSE [v \in DOMAIN m \cup {u} |-> IF v = u THEN {c} ELSE m[v]]

\* ws.on('message'), authenticate branch: the registry after
\* `if (!clients.has(u)) clients.set(u, new Set()); clients.get(u).add(ws)`.
Register(m, c, u) ==
    IF u \in DOMAIN m
    THEN [m EXCEPT ![u] = @ \cup {c}]
    ELSE [v \in DOMAIN m \cup {u} |-> IF v = u THEN {c} ELSE m[v]]

\* --------------------------------------------------------------- fan-out
\* sendToUser with a loop that stops after the first open connection.
SendToUserTargets_FirstOnly(p, u) ==
    LET open == IF Has(p, u) THEN {c \in clients[p][u] : readyState[c] = "OPEN"} ELSE {}
    IN  IF open = {} THEN {} ELSE {CHOOSE c \in open : TRUE}

\* sendToUser without the try/catch around ws.send: a throw ends the forEach.
SendToUserTargets_AbortOnThrow(p, u) ==
    LET open == IF Has(p, u) THEN {c \in clients[p][u] : readyState[c] = "OPEN"} ELSE {}
    IN  IF open \cap sendFails # {} THEN {} ELSE open

\* broadcastToAll over the registry instead of wss.clients.
BroadcastTargets_RegisteredOnly(p) ==
    {c \in Conns : connProc[c] = p /\ readyState[c] = "OPEN" /\ wsUserId[c] # Null} \ sendFails

\* The connections sendToUser(u, _) writes to on process p: those of the
\* user's set that are open and whose ws.send does not throw.
SendToUserTargets(p, u) ==
    IF Has(p, u) THEN {c \in clients[p][u] : readyState[c] = "OPEN"} \ sendFails ELSE {}

\* The connections broadcastToAll(_) writes to on process p (wss.clients).
BroadcastTargets(p) ==
    {c \in Conns : connProc[c] = p /\ readyState[c] = "OPEN"} \ sendFails

\* The transcripts after writing notification id n to the connections cs.
Write(cs, n) == [c \in Conns |-> IF c \in cs THEN Append(sent[c], n) ELSE sent[c]]

\* The switch with a default case that forwards the event to its user.
Normalize_DefaultCase(event) ==
    [type |-> event.type, userId |-> event.userId, data |-> event,
     broadcast |-> event.type = "inventory.updated"]

\* The switch with security.alert declared system-wide as well.
Normalize_AlertBroadcast(event) ==
    IF event.type \in {"inventory.updated", "security.alert"}
    THEN [type |-> event.type, userId |-> Null, data |-> event, broadcast |-> TRUE]
    ELSE [type |-> event.type, userId |-> event.userId, data |-> event, broadcast |-> FALSE]

\* The switch of connectKafka's eachMessage: the Notification of an event
\* (its message text is left out, its timestamp is added by the caller's
\* clock), or no notification for an unrecognized type and for a device.added
\* event without `device`, whose `event.device.name` throws into the catch
\* block.
NoNotification == [type |-> "none", userId |-> Null, data |-> Null, broadcast |-> FALSE]
Normalize(event) ==
    IF event.type = "inventory.updated"
    THEN [type |-> event.type, userId |-> Null, data |-> event, broadcast |-> TRUE]
    ELSE IF event.type = "device.added" /\ "device" \notin DOMAIN event
         THEN NoNotification
         ELSE IF event.type \in KnownTypes
              THEN [type |-> event.type, userId |-> event.userId, data |-> event,
                    broadcast |-> FALSE]
              ELSE NoNotification

\* The connections a dispatch of notification nt on process p writes to:
\* broadcast first, then a truthy userId, otherwise nothing.
DispatchTargets(p, nt) ==
    IF nt.broadcast THEN BroadcastTargets(p)
    ELSE IF nt.userId # Null THEN SendToUserTargets(p, nt.userId)
    ELSE {}

\* History record of one call of sendToUser / broadcastToAll on process p:
\* the connections written to and the value returned.
\* sendToUser returns deliveredCount > 0, broadcastToAll deliveredCount.
NoCall ==
    [id |-> 0, fn |-> "none", by |-> "A", userId |-> Null, written |-> {},
     delivered |-> FALSE, count |-> 0]
Call(fn, p, u, written) ==
    [id |-> lastCall.id + 1, fn |-> fn, by |-> p, userId |-> u, written |-> written,
     delivered |-> Cardinality(written) > 0, count |-> Cardinality(written)]

\* The call a dispatch of notification nt on process p makes, if any.
DispatchCall(p, nt) ==
    IF nt.broadcast THEN Call("broadcastToAll", p, Null, BroadcastTargets(p))
    ELSE IF nt.userId # Null THEN Call("sendToUser", p, nt.userId, SendToUserTargets(p, nt.userId))
    ELSE lastCall

\* Copies of notification id n written to connection c.
Copies(c, n) == Cardinality({i \in 1 .. Len(sent[c]) : sent[c][i] = n})

\* ------------------------------------------------------ checkConditions
\* JavaScript values: a type tag and a value; `undefined` is what a lookup
\* of a missing key yields.
Bool(b) == [t |-> "boolean", v |-> IF b THEN 1 ELSE 0]
Num(i) == [t |-> "number", v |-> i]
Undefined == [t |-> "undefined", v |-> 0]

\* a === b
StrictEq(a, b) == a.t = b.t /\ a.v = b.v

\* a == b on booleans and numbers (true == 1, false == 0)
LooseEq(a, b) == (a.t = "undefined") = (b.t = "undefined") /\ a.v = b.v

\* A JSON object is a function from its keys to values; an argument that may
\* be missing (undefined/null) is [present, map].
Absent == [present |-> FALSE, map |-> [k \in {} |-> Undefined]]
Obj(m) == [present |-> TRUE, map |-> m]

\* obj[key]
Get(m, key) == IF key \in DOMAIN m THEN m[key] ELSE Undefined

\* The order in which `for (const key in conditions)` visits the keys.
KeyOrder == <<"deviceId", "on", "level">>

\* The loop of checkConditions from the i-th key on: false at the first key
\* other than deviceId whose values differ, true when the keys are exhausted.
RECURSIVE CheckLoop(_, _, _)
CheckLoop(cm, sm, i) ==
    IF i > Len(KeyOrder) THEN TRUE
    ELSE IF KeyOrder[i] \notin DOMAIN cm THEN CheckLoop(cm, sm, i + 1)
    ELSE IF KeyOrder[i] # "deviceId" /\ ~StrictEq(cm[KeyOrder[i]], Get(sm, KeyOrder[i]))
         THEN FALSE
         ELSE CheckLoop(cm, sm, i + 1)

\* checkConditions with == in place of ===.
RECURSIVE CheckLoop_Loose(_, _, _)
CheckLoop_Loose(cm, sm, i) ==
    IF i > Len(KeyOrder) THEN TRUE
    ELSE IF KeyOrder[i] \notin DOMAIN cm THEN CheckLoop_Loose(cm, sm, i + 1)
    ELSE IF KeyOrder[i] # "deviceId" /\ ~LooseEq(cm[KeyOrder[i]], Get(sm, KeyOrder[i]))
         THEN FALSE
         ELSE CheckLoop_Loose(cm, sm, i + 1)
checkConditions_Loose(conditions, currentState) ==
    IF ~conditions.present \/ ~currentState.present THEN FALSE
    ELSE CheckLoop_Loose(conditions.map, currentState.map, 1)

checkConditions(conditions, currentState) ==
    IF ~conditions.present \/ ~currentState.present THEN FALSE
    ELSE CheckLoop(conditions.map, currentState.map, 1)

\* The objects over the given keys, each key absent or bound to one of its values.
ValuesOf(key) ==
    IF key = "deviceId" THEN {Num(3)}
    ELSE IF key = "on" THEN {Bool(TRUE), Bool(FALSE), Num(1)}
    ELSE {Num(1), Num(2)}
ObjectsOver(keys) ==
    UNION {[ks -> UNION {ValuesOf(k) : k \in ks}] : ks \in SUBSET keys}
WellTyped(m) == \A k \in DOMAIN m : m[k] \in ValuesOf(k)
ConditionArgs ==
    {Absent} \cup {Obj(m) : m \in {x \in ObjectsOver({"deviceId", "on", "level"}) : WellTyped(x)}}
StateArgs ==
    {Absent} \cup {Obj(m) : m \in {x \in ObjectsOver({"on", "level"}) : WellTyped(x)}}

\* ------------------------------------------------- automation rules
\* The stored Automation documents: owner, trigger and action list. The
\* enabled flag and lastExecuted are variables.
On(b) == [k \in {"on"} |-> Bool(b)]
RuleIds == {1, 2, 3, 4}
Rules ==
    [r \in RuleIds |->
        CASE r = 1 ->
               [userId |-> 1,
                trigger |-> [type |-> "device",
                             conditions |-> Obj([k \in {"deviceId", "on"} |->
                                                   IF k = "on" THEN Bool(TRUE) ELSE Num(3)])],
                actions |-> <<[deviceId |-> 9, state |-> On(TRUE)],
                              [deviceId |-> 8, state |-> On(FALSE)]>>]
          [] r = 2 ->
               [userId |-> 1,
                trigger |-> [type |-> "device",
                             conditions |-> Obj([k \in {"deviceId"} |-> Num(3)])],
                actions |-> <<[deviceId |-> 9, state |-> On(FALSE)]>>]
          [] r = 3 ->
               [userId |-> 1,
                trigger |-> [type |-> "time", conditions |-> Absent],
                actions |-> <<[deviceId |-> 9, state |-> On(TRUE)]>>]
          [] OTHER ->
               [userId |-> 7,
                trigger |-> [type |-> "device",
                             conditions |-> Obj([k \in {"deviceId", "on"} |->
                                                   IF k = "on" THEN Bool(TRUE) ELSE Num(3)])],
                actions |-> <<[deviceId |-> 9, state |-> On(TRUE)]>>]]
DeviceIds == {8, 9}

\* The ids of a set of rules as a sequence, in the order find() returns them.
RECURSIVE InOrder(_)
InOrder(rs) ==
    IF rs = {} THEN <<>>
    ELSE LET r == CHOOSE x \in rs : \A y \in rs : x <= y
         IN  <<r>> \o InOrder(rs \ {r})

\* The event path's query without `enabled: true`.
FindForEvent_IgnoreEnabled(event) ==
    InOrder({r \in RuleIds :
        /\ Rules[r].userId = event.userId
        /\ Rules[r].trigger.type = "device"
        /\ Rules[r].trigger.conditions.present
        /\ StrictEq(Get(Rules[r].trigger.conditions.map, "deviceId"), Num(event.deviceId))})

\* The trigger path's query without the userId filter.
FindForTrigger_AnyUser(trigger) ==
    InOrder({r \in RuleIds : enabled[r] /\ Rules[r].trigger.type = trigger.type})

\* Automation.find({userId, enabled: true, 'trigger.type': 'device',
\*                  'trigger.conditions.deviceId': deviceId})
FindForEvent(event) ==
    InOrder({r \in RuleIds :
        /\ Rules[r].userId = event.userId
        /\ enabled[r]
        /\ Rules[r].trigger.type = "device"
        /\ Rules[r].trigger.conditions.present
        /\ StrictEq(Get(Rules[r].trigger.conditions.map, "deviceId"), Num(event.deviceId))})

\* Automation.find({userId, enabled: true, 'trigger.type': type})
FindForTrigger(trigger) ==
    InOrder({r \in RuleIds :
        /\ Rules[r].userId = trigger.userId
        /\ enabled[r]
        /\ Rules[r].trigger.type = trigger.type})

\* The messages the loop over automation.actions sends to device.command.
CommandsOf(r) ==
    [i \in 1 .. Len(Rules[r].actions) |->
        [deviceId |-> Rules[r].actions[i].deviceId,
         state |-> Rules[r].actions[i].state,
         automationId |-> r]]

\* The event path's inner loop, guarded by `if (rabbitChannel)`.
EventCommands(r) == IF autoChannel = "open" THEN CommandsOf(r) ELSE <<>>

\* The first position from i on whose rule's conditions the state meets
\* (0: none): the rules before it are skipped by `if (conditionsMet)`.
RECURSIVE NextMatch(_, _, _)
NextMatch(autos, state, i) ==
    IF i > Len(autos) THEN 0
    ELSE IF checkConditions(Rules[autos[i]].trigger.conditions, state) THEN i
    ELSE NextMatch(autos, state, i + 1)

\* The value published to automation-events for rule r and its trigger event.
ExecutedEvent(r, event) ==
    [type |-> "automation.executed", automationId |-> r, userId |-> event.userId,
     actions |-> Rules[r].actions]

NoEvent == [type |-> "none", userId |-> Null, deviceId |-> 0, state |-> Absent]
NoTrigger == [userId |-> Null, type |-> "none"]
IdleHandler == [pc |-> "idle", seq |-> 0, autos |-> <<>>, i |-> 0, x |-> 0]
EvIdle == [h |-> IdleHandler, event |-> NoEvent]
TrIdle == [h |-> IdleHandler, trigger |-> NoTrigger]

\* ---------------------------------------------------------------- Init
NotifInit ==
    /\ connProc = [c \in Conns |-> "A"]
    /\ readyState = [c \in Conns |-> "NONE"]
    /\ wsUserId = [c \in Conns |-> Null]
    /\ isAlive = [c \in Conns |-> FALSE]
    /\ clients = [p \in Procs |-> EmptyMap]
    /\ sent = [c \in Conns |-> <<>>]
    /\ relay = [p \in Procs |-> <<>>]
    /\ ingested = <<>>

CondIdle ==
    /\ condIn = Absent
    /\ stateIn = Absent
    /\ condOut = [done |-> FALSE, value |-> FALSE]

EngineInit ==
    /\ autoChannel = "undefined"
    /\ enabled = [r \in RuleIds |-> TRUE]
    /\ lastExecuted = [r \in RuleIds |-> 0]
    /\ cmdLog = <<>>
    /\ cmdHead = 0
    /\ autoEvents = <<>>
    /\ evH = EvIdle
    /\ trH = TrIdle
    /\ msgs = 0
    /\ execLog = <<>>
    /\ settled = [queue |-> "none", ok |-> TRUE, outcome |-> "none"]
    /\ handled = <<>>

DeviceInit ==
    /\ deviceState = [d \in DeviceIds |-> On(FALSE)]
    /\ statusLog = <<>>
    /\ statusHead = 0

SessionInit ==
    /\ lastReply = [c \in Conns |-> [frame |-> "none", reply |-> "none"]]
    /\ probe = [c \in Conns |-> "none"]
    /\ terminated = [c \in Conns |-> 0]
    /\ missed = [c \in Conns |-> 0]
    /\ ticks = [p \in Procs |-> 0]

DeliveryInit ==
    /\ sendFails = {}
    /\ lastCall = NoCall
    /\ autoHead = 0

\* The consumer callbacks that take a payload from a broker or a socket.
Handlers ==
    {"notification.eachMessage", "automation.eachMessage", "device.eachMessage",
     "device.command", "automation.trigger", "device.status", "relay", "ws.message"}

\* No payload of an unusual shape seen yet.
NoOddPayload == [kind |-> "none", outcome |-> "none"]

\* History: handler h got a payload of the given unusual kind and returned
\* or raised.
Odd(h, kind, outcome) == [oddPayload EXCEPT ![h] = [kind |-> kind, outcome |-> outcome]]

\* The services that call connectRabbitMQ() when the module is loaded.
Services == {"notification", "automation", "device"}

AuxInit ==
    /\ oddPayload = [h \in Handlers |-> NoOddPayload]
    /\ normIn = NoEvent
    /\ normOut = [done |-> FALSE, value |-> NoNotification, timestamp |-> 0]
    /\ partHead = 0

BrokerInit ==
    /\ rabbit = [s \in Services |-> "none"]
    /\ pending = [s \in Services |-> 1]
    /\ brokerUp = TRUE

\* The devices table: the device the rules are triggered by, user_id of each
\* row, and an id no row has.
TriggerDevice == 3
DeviceOwner == [d \in DeviceIds \cup {TriggerDevice} |-> 1]
MissingDevice == 5

\* No connection yet, no consumer crash yet, no PUT /api/devices/:id/state
\* answered yet (lastPut: its number, caller and id, the status of the reply,
\* whether it put a Device Command on device.command and published
\* device.state_changed, and the stored states before it).
ExtInit ==
    /\ live = [s \in Services |-> 0]
    /\ kafkaHandlers = 0
    /\ kafkaPending = 1
    /\ lastCrash = [handlers |-> 0, scheduled |-> 0]
    /\ poison = 0
    /\ lastPut = [n |-> 0, userId |-> Null, deviceId |-> 0, status |-> 0, sent |-> FALSE,
                  published |-> FALSE, before |-> [d \in DeviceIds |-> On(FALSE)]]
    /\ devHead = 0
    /\ devEvents = <<>>

Init ==
    /\ NotifInit /\ CondIdle /\ EngineInit /\ DeviceInit /\ SessionInit /\ DeliveryInit
    /\ AuxInit /\ BrokerInit /\ ExtInit

\* ------------------------------------------------------------- actions
\* wss.on('connection')
Accept(c, p) ==
    /\ readyState[c] = "NONE"
    /\ connProc' = [connProc EXCEPT ![c] = p]
    /\ readyState' = [readyState EXCEPT ![c] = "OPEN"]
    /\ isAlive' = [isAlive EXCEPT ![c] = TRUE]
    /\ UNCHANGED <<wsUserId, clients, sent, relay, ingested, condVars, engineVars, deviceVars,
                   sessionVars, deliveryVars, auxVars, brokerVars, extVars>>

\* ws.on('message') with {type: 'authenticate', userId: u}
Authenticate(c, u) ==
    /\ readyState[c] = "OPEN"
    /\ wsUserId' = [wsUserId EXCEPT ![c] = u]
    /\ clients' = [clients EXCEPT ![connProc[c]] = Register(@, c, u)]
    /\ lastReply' = [lastReply EXCEPT ![c] = [frame |-> "authenticate", reply |-> "authenticated"]]
    /\ UNCHANGED <<connProc, readyState, isAlive, sent, relay, ingested, condVars, engineVars,
                   deviceVars, probe, terminated, missed, ticks, deliveryVars, auxVars, brokerVars,
                   extVars>>

\* ws.on('message') with any other frame: content that does not parse (or
\* parses to null) is answered from the catch block, a ping frame with a
\* pong; an authenticate frame without userId and a frame of any other type
\* match no branch and get no reply.
FrameKinds == {"unparsable", "authenticate-without-userId", "ping", "other"}
ReplyTo(frame) ==
    IF frame = "unparsable" THEN "error"
    ELSE IF frame = "ping" THEN "pong"
    ELSE "none"
OnMessage(c, frame) ==
    /\ readyState[c] = "OPEN"
    /\ lastReply' = [lastReply EXCEPT ![c] = [frame |-> frame, reply |-> ReplyTo(frame)]]
    /\ oddPayload' = IF frame = "unparsable" THEN Odd("ws.message", "unparsable", "returned")
                     ELSE oddPayload
    /\ UNCHANGED <<notifVars, condVars, engineVars, deviceVars, probe, terminated, missed, ticks,
                   deliveryVars, normIn, normOut, partHead, brokerVars, extVars>>

\* ws.on('pong')
Pong(c) ==
    /\ readyState[c] = "OPEN"
    /\ isAlive' = [isAlive EXCEPT ![c] = TRUE]
    /\ probe' = [probe EXCEPT ![c] = IF @ = "sent" THEN "answered" ELSE @]
    /\ missed' = [missed EXCEPT ![c] = 0]
    /\ UNCHANGED <<connProc, readyState, wsUserId, clients, sent, relay, ingested, condVars,
                   engineVars, deviceVars, lastReply, terminated, ticks, deliveryVars, auxVars, brokerVars,
                   extVars>>

\* wss.clients of process p: the connections accepted whose close event has
\* not been emitted yet.
Tracked(p) == {c \in Conns : connProc[c] = p /\ readyState[c] \in {"OPEN", "CLOSING"}}

\* One run of the heartbeatInterval callback on process p: a connection with
\* isAlive === false is terminated (its close event follows), any other is
\* marked not alive and pinged.
Heartbeat(p) ==
    /\ ticks[p] < MaxTicks
    /\ ticks' = [ticks EXCEPT ![p] = @ + 1]
    /\ readyState' = [c \in Conns |->
                         IF c \in Tracked(p) /\ ~isAlive[c] THEN "CLOSING" ELSE readyState[c]]
    /\ terminated' = [c \in Conns |->
                         IF c \in Tracked(p) /\ ~isAlive[c] THEN ticks[p] + 1 ELSE terminated[c]]
    /\ isAlive' = [c \in Conns |-> IF c \in Tracked(p) THEN FALSE ELSE isAlive[c]]
    /\ probe' = [c \in Conns |->
                    IF c \in Tracked(p) /\ isAlive[c] THEN "sent" ELSE probe[c]]
    /\ missed' = [c \in Conns |->
                     IF c \in Tracked(p) /\ missed[c] < 2 THEN missed[c] + 1 ELSE missed[c]]
    /\ UNCHANGED <<connProc, wsUserId, clients, sent, relay, ingested, condVars, engineVars,
                   deviceVars, lastReply, deliveryVars, auxVars, brokerVars, extVars>>

\* The closing handshake starts (ws.close(), a close frame, ws.terminate()).
BeginClose(c) ==
    /\ readyState[c] = "OPEN"
    /\ readyState' = [readyState EXCEPT ![c] = "CLOSING"]
    /\ UNCHANGED <<connProc, wsUserId, isAlive, clients, sent, relay, ingested, condVars,
                   engineVars, deviceVars, sessionVars, deliveryVars, auxVars, brokerVars,
                   extVars>>

\* ws.on('close')
OnClose(c) ==
    /\ readyState[c] \in {"OPEN", "CLOSING"}
    /\ readyState' = [readyState EXCEPT ![c] = "CLOSED"]
    /\ clients' = [clients EXCEPT ![connProc[c]] = Unregister(@, c, wsUserId[c])]
    /\ UNCHANGED <<connProc, wsUserId, isAlive, sent, relay, ingested, condVars, engineVars,
                   deviceVars, sessionVars, deliveryVars, auxVars, brokerVars, extVars>>

\* GET /api/stats on process p.
Stats(p) ==
    [totalConnections |-> Cardinality(Tracked(p)),
     totalUsers |-> Cardinality(DOMAIN clients[p]),
     usersOnline |-> DOMAIN clients[p],
     connectionsPerUser |-> [u \in DOMAIN clients[p] |-> Cardinality(clients[p][u])]]

\* redisPub.publish('notifications', ...): every subscribed process gets
\* the message; a publish error is caught and logged (ok = FALSE).
Publish(n, ok) ==
    IF ok THEN [q \in Procs |-> Append(relay[q], n)] ELSE relay

\* History: the connections, on any process, that are open and in user u's set.
RegisteredOpen(u) == {c \in Conns : readyState[c] = "OPEN" /\ u \in SetsHolding(c)}

\* Local delivery on p (the call made) followed by publishNotification, for
\* notification nt; the record kept of it names the ingesting process, the
\* calls of publishNotification, whether the publish reached the channel, and
\* the connections registered under the target at that time.
Dispatch(p, nt, call, ok) ==
    LET n == Len(ingested) + 1
    IN  /\ sent' = Write(call.written, n)
        /\ relay' = Publish(n, ok)
        /\ lastCall' = call
        /\ ingested' = Append(ingested,
               [notif |-> nt, by |-> p, publishCalls |-> 1, published |-> ok,
                audience |-> IF nt.userId = Null \/ nt.broadcast THEN {}
                             ELSE RegisteredOpen(nt.userId)])

\* A notification that meets neither `notification.broadcast` nor
\* `notification.userId`: nothing is written and nothing is published.
Dropped(p, nt) ==
    /\ ingested' = Append(ingested,
           [notif |-> nt, by |-> p, publishCalls |-> 0, published |-> FALSE, audience |-> {}])
    /\ UNCHANGED <<sent, relay, lastCall>>

\* kafkaConsumer eachMessage on process p (one member of the consumer group
\* gets each message).
EachMessage(p, event, ok) ==
    LET nt == Normalize(event)
    IN  IF nt = NoNotification THEN UNCHANGED <<sent, relay, ingested, lastCall>>
        ELSE IF nt.broadcast \/ nt.userId # Null THEN Dispatch(p, nt, DispatchCall(p, nt), ok)
        ELSE Dropped(p, nt)

\* eachMessage with an event of device-events or sensor-data; an event whose
\* type matches no case of the switch leaves `notification` null and the
\* handler returns.
KafkaEachMessage(p, event, ok) ==
        /\ Len(ingested) < MaxNotifs
        /\ EachMessage(p, event, ok)
        /\ oddPayload' =
              IF event.type \notin KnownTypes
              THEN Odd("notification.eachMessage", "unknown-type", "returned")
              ELSE IF Normalize(event) = NoNotification
                   THEN Odd("notification.eachMessage", "missing-field", "returned")
                   ELSE oddPayload
        /\ UNCHANGED <<connProc, readyState, wsUserId, isAlive, clients, condVars, engineVars,
                       deviceVars, sessionVars, sendFails, autoHead, normIn, normOut,
                       partHead, brokerVars, extVars>>

\* POST /api/notify on process p with body {userId, message}: 400 without a
\* userId, otherwise sendToUser and publishNotification.
ApiNotify(p, u, ok) ==
    LET nt == [type |-> "custom", userId |-> u, broadcast |-> FALSE]
    IN  /\ Len(ingested) < MaxNotifs
        /\ IF u = Null THEN UNCHANGED <<sent, relay, ingested, lastCall>>
           ELSE Dispatch(p, nt, Call("sendToUser", p, u, SendToUserTargets(p, u)), ok)
        /\ UNCHANGED <<connProc, readyState, wsUserId, isAlive, clients, condVars, engineVars,
                       deviceVars, sessionVars, sendFails, autoHead, auxVars, brokerVars, extVars>>

\* ws.send() of connection c starts to throw.
SocketBreaks(c) ==
    /\ readyState[c] = "OPEN"
    /\ c \notin sendFails
    /\ sendFails' = sendFails \cup {c}
    /\ UNCHANGED <<notifVars, condVars, engineVars, deviceVars, sessionVars, lastCall,
                   autoHead, auxVars, brokerVars, extVars>>

\* redisSub.subscribe('notifications') callback on process p
RelaySubscriber(p) ==
    /\ relay[p] # <<>>
    /\ LET n == Head(relay[p])
       IN  /\ sent' = Write(DispatchTargets(p, ingested[n].notif), n)
           /\ lastCall' = DispatchCall(p, ingested[n].notif)
    /\ relay' = [relay EXCEPT ![p] = Tail(@)]
    /\ UNCHANGED <<connProc, readyState, wsUserId, isAlive, clients, ingested, condVars,
                   engineVars, deviceVars, sessionVars, sendFails, autoHead, auxVars, brokerVars,
                   extVars>>

\* One partition of device-events: two events of user 1, in offset order,
\* and the member of the consumer group the partition is assigned to.
Partition ==
    <<[type |-> "device.state_changed", userId |-> 1],
      [type |-> "motion.detected", userId |-> 1]>>
PartitionOwner == "A"

\* eachMessage of the partition's owner with the next message of the
\* partition: the handler of one message returns before the next is handed
\* over.
PartitionEachMessage(ok) ==
    /\ partHead < Len(Partition)
    /\ partHead' = partHead + 1
    /\ EachMessage(PartitionOwner, Partition[partHead + 1], ok)
    /\ UNCHANGED <<connProc, readyState, wsUserId, isAlive, clients, condVars, engineVars,
                   deviceVars, sessionVars, sendFails, autoHead, oddPayload, normIn, normOut,
                   brokerVars, extVars>>

\* Delivery of the messages of one partition, locally and through the relay.
NextOrder ==
    \/ \E c \in Conns, p \in Procs : Accept(c, p)
    \/ \E c \in Conns, u \in Users : Authenticate(c, u)
    \/ \E c \in Conns : OnClose(c)
    \/ \E ok \in BOOLEAN : PartitionEachMessage(ok)
    \/ \E p \in Procs : RelaySubscriber(p)

SpecOrder == Init /\ [][NextOrder]_vars

Next ==
    \/ \E c \in Conns, p \in Procs : Accept(c, p)
    \/ \E c \in Conns, u \in Users : Authenticate(c, u)
    \/ \E c \in Conns : BeginClose(c)
    \/ \E c \in Conns : OnClose(c)
    \/ \E p \in Procs, t \in EventTypes, u \in Users \cup {Null}, ok \in BOOLEAN :
          KafkaEachMessage(p, [type |-> t, userId |-> u], ok)
    \/ \E p \in Procs : RelaySubscriber(p)

Spec == Init /\ [][Next]_vars

\* Fairness of the relay: the redisSub callback runs for every message that
\* reached the channel.
FairSpec == Spec /\ \A p \in Procs : WF_vars(RelaySubscriber(p))

\* The delivery layer: every way a Notification is built on a process, with
\* connections whose writes throw.
NextDelivery ==
    \/ \E c \in Conns, p \in Procs : Accept(c, p)
    \/ \E c \in Conns, u \in Users : Authenticate(c, u)
    \/ \E c \in Conns : BeginClose(c)
    \/ \E c \in Conns : OnClose(c)
    \/ \E c \in Conns : SocketBreaks(c)
    \/ \E p \in Procs, t \in EventTypes, u \in Users \cup {Null}, ok \in BOOLEAN :
          KafkaEachMessage(p, [type |-> t, userId |-> u], ok)
    \/ \E p \in Procs, u \in Users \cup {Null}, ok \in BOOLEAN : ApiNotify(p, u, ok)
    \/ \E p \in Procs : RelaySubscriber(p)

SpecDelivery == Init /\ [][NextDelivery]_vars

\* The session layer alone: frames received on open connections.
NextSession ==
    \/ \E c \in Conns, p \in Procs : Accept(c, p)
    \/ \E c \in Conns, u \in Users : Authenticate(c, u)
    \/ \E c \in Conns, f \in FrameKinds : OnMessage(c, f)
    \/ \E c \in Conns : BeginClose(c)
    \/ \E c \in Conns : OnClose(c)

SpecSession == Init /\ [][NextSession]_vars

\* The liveness supervisor: ticks, pongs and the close path.
NextHeartbeat ==
    \/ \E c \in Conns, p \in Procs : Accept(c, p)
    \/ \E c \in Conns, u \in Users : Authenticate(c, u)
    \/ \E c \in Conns : Pong(c)
    \/ \E p \in Procs : Heartbeat(p)
    \/ \E c \in Conns : OnClose(c)

SpecHeartbeat == Init /\ [][NextHeartbeat]_vars

\* ------------------------------------------- automation service actions
\* One call of connectRabbitMQ() of service s. With the broker reachable the
\* connection and the channel exist afterwards and the consumer is registered
\* (the automation service's rabbitChannel is assigned); otherwise the catch
\* block schedules the next call, which leaves the service as it was.
ConnectRabbitMQ(s) ==
    /\ pending[s] > 0
    /\ IF brokerUp
       THEN /\ rabbit' = [rabbit EXCEPT ![s] = "up"]
            /\ live' = [live EXCEPT ![s] = @ + 1]
            /\ pending' = [pending EXCEPT ![s] = @ - 1]
            /\ autoChannel' = IF s = "automation" THEN "open" ELSE autoChannel
       ELSE UNCHANGED <<rabbit, live, pending, autoChannel>>
    /\ UNCHANGED <<enabled, lastExecuted, cmdLog, cmdHead, autoEvents, evH, trH, msgs,
                   execLog, settled, handled, notifVars, condVars, deviceVars, sessionVars,
                   deliveryVars, auxVars, brokerUp, kafkaHandlers, kafkaPending, lastCrash,
                   poison, lastPut, devHead, devEvents>>

\* connectRabbitMQ of the automation service succeeded: the channel exists
\* and the automation.trigger consumer is registered.
AutoConnectRabbitMQ == ConnectRabbitMQ("automation")

\* The calls of connectRabbitMQ that service s schedules when its connection
\* is lost: the notification service registers connection.on('error') and
\* connection.on('close'), each with setTimeout(connectRabbitMQ, 5000), and a
\* connection that fails emits both events; the automation and the device
\* service register no handler on the connection.
Rescheduled(s, withError) ==
    IF s = "notification" THEN (IF withError THEN 2 ELSE 1) ELSE 0

\* One connection of service s to the queue broker is lost, with an error
\* (socket failure) or without (the broker closes it); its consumer goes
\* with it. rabbitChannel keeps the channel object it was assigned last.
ConnectionLost(s, withError) ==
    /\ live[s] > 0
    /\ live[s] - 1 + pending[s] + Rescheduled(s, withError) <= MaxPending
    /\ live' = [live EXCEPT ![s] = @ - 1]
    /\ rabbit' = [rabbit EXCEPT ![s] = IF live[s] = 1 THEN "lost" ELSE "up"]
    /\ pending' = [pending EXCEPT ![s] = @ + Rescheduled(s, withError)]
    /\ UNCHANGED <<notifVars, condVars, engineVars, deviceVars, sessionVars, deliveryVars,
                   auxVars, brokerUp, kafkaHandlers, kafkaPending, lastCrash, poison,
                   lastPut, devHead, devEvents>>

\* The queue broker stops accepting connections, and accepts them again.
BrokerStops ==
    /\ brokerUp
    /\ brokerUp' = FALSE
    /\ UNCHANGED <<notifVars, condVars, engineVars, deviceVars, sessionVars, deliveryVars,
                   auxVars, rabbit, pending, extVars>>
BrokerRecovers ==
    /\ ~brokerUp
    /\ brokerUp' = TRUE
    /\ UNCHANGED <<notifVars, condVars, engineVars, deviceVars, sessionVars, deliveryVars,
                   auxVars, rabbit, pending, extVars>>

\* One call of connectKafka() of the notification service. When connect,
\* subscribe and run succeed, one more consumer.crash listener is registered
\* on the one kafkaConsumer object; otherwise the catch block schedules the
\* next call, which leaves the service as it was.
ConnectKafka(ok) ==
    /\ kafkaPending > 0
    /\ kafkaHandlers < MaxPending
    /\ IF ok
       THEN /\ kafkaHandlers' = kafkaHandlers + 1
            /\ kafkaPending' = kafkaPending - 1
       ELSE UNCHANGED <<kafkaHandlers, kafkaPending>>
    /\ UNCHANGED <<notifVars, condVars, engineVars, deviceVars, sessionVars, deliveryVars,
                   auxVars, brokerVars, live, lastCrash, poison, lastPut, devHead, devEvents>>

\* The consumer crashes: every consumer.crash listener registered so far
\* disconnects the consumer and schedules a call of connectKafka.
ConsumerCrash ==
    /\ kafkaHandlers > 0
    /\ kafkaPending + kafkaHandlers <= MaxPending
    /\ kafkaPending' = kafkaPending + kafkaHandlers
    /\ lastCrash' = [handlers |-> kafkaHandlers, scheduled |-> kafkaHandlers]
    /\ UNCHANGED <<notifVars, condVars, engineVars, deviceVars, sessionVars, deliveryVars,
                   auxVars, brokerVars, live, kafkaHandlers, poison, lastPut, devHead, devEvents>>

\* The three services and their connections to the queue broker, and the
\* notification service's connection to the log broker.
NextReconnect ==
    \/ \E ok \in BOOLEAN : ConnectKafka(ok)
    \/ ConsumerCrash
    \/ \E s \in Services : ConnectRabbitMQ(s)
    \/ \E s \in Services, withError \in BOOLEAN : ConnectionLost(s, withError)
    \/ BrokerStops
    \/ BrokerRecovers

SpecReconnect == Init /\ [][NextReconnect]_vars

\* The timers fire, and the broker comes back after an outage; a call of
\* connectRabbitMQ that is repeated every five seconds meets the broker up.
FairReconnect ==
    /\ SpecReconnect
    /\ WF_vars(BrokerRecovers)
    /\ \A s \in Services : SF_vars(ConnectRabbitMQ(s))

\* PATCH /api/automations/:id/toggle
Toggle(r) ==
    /\ enabled' = [enabled EXCEPT ![r] = ~@]
    /\ UNCHANGED <<autoChannel, lastExecuted, cmdLog, cmdHead, autoEvents, evH, trH, msgs,
                   execLog, settled, handled, notifVars, condVars, deviceVars, sessionVars, deliveryVars, auxVars, brokerVars,
                   extVars>>

\* History record of an execution of rule r that sent cmds after `base`
\* earlier commands: the position of the automation.executed event it
\* published (0: none), whether its save() returned, and whether it is
\* running, ended in the catch block ("failed") or ran through ("done").
Execution(r, path, seq, cmds, base) ==
    [rule |-> r, path |-> path, seq |-> seq, cmdFrom |-> base + 1,
     cmdTo |-> base + Len(cmds), event |-> 0, saved |-> FALSE, status |-> "running"]

\* History record of a message taken by the event path or the trigger path:
\* its fields, the enabled flags of its user's rules at the time find()
\* returned, and how the handler ended ("done": ran through; "failed": left through a throw, with
\* the call that threw).
Taken(path, userId, type, deviceId, state) ==
    [path |-> path, userId |-> userId, type |-> type, deviceId |-> deviceId,
     state |-> state, fetched |-> FALSE,
     enabledAt |-> [r \in RuleIds |-> FALSE], status |-> "running", failedAt |-> "none"]
Fetched(hd, seq) ==
    [hd EXCEPT ![seq].fetched = TRUE,
               ![seq].enabledAt = [r \in RuleIds |->
                                      enabled[r] /\ Rules[r].userId = hd[seq].userId]]
Failed(hd, seq, call) == [hd EXCEPT ![seq].status = "failed", ![seq].failedAt = call]
Done(hd, seq) == [hd EXCEPT ![seq].status = "done"]

\* eachMessage, from position i of the fetched rules: skip the rules whose
\* conditions are not met; for the first one met, send its commands and call
\* kafkaProducer.send; with none left the handler returns.
EventContinue(h, event, i, log, hd) ==
    LET j == NextMatch(h.autos, event.state, i)
        r == h.autos[j]
        cmds == EventCommands(r)
    IN  IF j = 0
        THEN /\ evH' = EvIdle
             /\ cmdLog' = cmdLog
             /\ execLog' = log
             /\ handled' = Done(hd, h.seq)
        ELSE /\ evH' = [h |-> [h EXCEPT !.pc = "send", !.i = j, !.x = Len(log) + 1],
                        event |-> event]
             /\ cmdLog' = cmdLog \o cmds
             /\ execLog' = Append(log, Execution(r, "event", h.seq, cmds, Len(cmdLog)))
             /\ handled' = hd

\* eachMessage is called with an event of device-events; anything but a
\* device.state_changed event is ignored.
EventReceive(event) ==
    /\ evH.h.pc = "idle"
    /\ msgs < MaxMsgs
    /\ msgs' = msgs + 1
    /\ evH' = IF event.type = "device.state_changed"
              THEN [h |-> [IdleHandler EXCEPT !.pc = "find", !.seq = msgs + 1], event |-> event]
              ELSE EvIdle
    /\ handled' = LET t == Append(handled, Taken("event", event.userId, event.type, event.deviceId, event.state))
                  IN  IF event.type = "device.state_changed" THEN t ELSE Done(t, msgs + 1)
    /\ UNCHANGED <<autoChannel, enabled, lastExecuted, cmdLog, cmdHead, autoEvents, trH,
                   execLog, settled, notifVars, condVars, deviceVars, sessionVars, deliveryVars, auxVars, brokerVars,
                   extVars>>

\* `await Automation.find(...)` returns (ok) or throws (caught, logged).
EventFindDone(ok) ==
    /\ evH.h.pc = "find"
    /\ IF ok
       THEN EventContinue([evH.h EXCEPT !.autos = FindForEvent(evH.event)], evH.event, 1,
                          execLog, Fetched(handled, evH.h.seq))
       ELSE /\ evH' = EvIdle
            /\ handled' = Failed(handled, evH.h.seq, "find")
            /\ UNCHANGED <<cmdLog, execLog>>
    /\ UNCHANGED <<autoChannel, enabled, lastExecuted, cmdHead, autoEvents, trH, msgs,
                   settled, notifVars, condVars, deviceVars, sessionVars, deliveryVars, auxVars, brokerVars,
                   extVars>>

\* `await kafkaProducer.send(...)` returns (ok) or throws; then
\* automation.lastExecuted is set and save() is called.
EventSendDone(ok) ==
    /\ evH.h.pc = "send"
    /\ IF ok
       THEN /\ autoEvents' = Append(autoEvents, ExecutedEvent(evH.h.autos[evH.h.i], evH.event))
            /\ execLog' = [execLog EXCEPT ![evH.h.x].event = Len(autoEvents) + 1]
            /\ evH' = [evH EXCEPT !.h.pc = "save"]
            /\ handled' = handled
       ELSE /\ evH' = EvIdle
            /\ execLog' = [execLog EXCEPT ![evH.h.x].status = "failed"]
            /\ handled' = Failed(handled, evH.h.seq, "send")
            /\ UNCHANGED autoEvents
    /\ UNCHANGED <<autoChannel, enabled, lastExecuted, cmdLog, cmdHead, trH, msgs,
                   settled, notifVars, condVars, deviceVars, sessionVars, deliveryVars, auxVars, brokerVars,
                   extVars>>

\* `await automation.save()` returns (ok) or throws; the loop goes on with the
\* next rule.
EventSaveDone(ok) ==
    /\ evH.h.pc = "save"
    /\ IF ok
       THEN /\ lastExecuted' = [lastExecuted EXCEPT ![evH.h.autos[evH.h.i]] = evH.h.seq]
            /\ EventContinue(evH.h, evH.event, evH.h.i + 1,
                             [execLog EXCEPT ![evH.h.x].saved = TRUE,
                                             ![evH.h.x].status = "done"],
                             handled)
       ELSE /\ evH' = EvIdle
            /\ execLog' = [execLog EXCEPT ![evH.h.x].status = "failed"]
            /\ handled' = Failed(handled, evH.h.seq, "save")
            /\ UNCHANGED <<lastExecuted, cmdLog>>
    /\ UNCHANGED <<autoChannel, enabled, cmdHead, autoEvents, trH, msgs,
                   settled, notifVars, condVars, deviceVars, sessionVars, deliveryVars, auxVars, brokerVars,
                   extVars>>

\* POST /api/automations/:id/execute by user u for rule r: findOne by id and
\* user (404 when there is none); one Device Command per action when the
\* channel exists; lastExecuted is set and save() is called (ok, or it
\* throws: 500, with the commands already sent).
Execute(u, r, ok) ==
    /\ msgs < MaxMsgs
    /\ msgs' = msgs + 1
    /\ IF Rules[r].userId = u
       THEN /\ cmdLog' = IF autoChannel = "open" THEN cmdLog \o CommandsOf(r) ELSE cmdLog
            /\ lastExecuted' = IF ok THEN [lastExecuted EXCEPT ![r] = msgs + 1]
                               ELSE lastExecuted
       ELSE UNCHANGED <<cmdLog, lastExecuted>>
    /\ UNCHANGED <<autoChannel, enabled, cmdHead, autoEvents, evH, trH, execLog, settled,
                   handled, notifVars, condVars, deviceVars, sessionVars, deliveryVars,
                   auxVars, brokerVars, extVars>>

\* How the handler of a message of `queue` ended: whether its processing
\* succeeded, and whether it acked, nacked or did neither.
Settle(queue, ok, outcome) == [queue |-> queue, ok |-> ok, outcome |-> outcome]

\* The automation.trigger consumer, from position i of the fetched rules:
\* send the rule's commands, set lastExecuted and call save(); after the
\* last rule, ack.
TriggerContinue(h, trigger, i, log, hd) ==
    LET r == h.autos[i]
        cmds == CommandsOf(r)
    IN  IF i > Len(h.autos)
        THEN /\ trH' = TrIdle
             /\ cmdLog' = cmdLog
             /\ execLog' = log
             /\ settled' = Settle("automation.trigger", TRUE, "ack")
             /\ handled' = Done(hd, h.seq)
        ELSE /\ trH' = [h |-> [h EXCEPT !.pc = "save", !.i = i, !.x = Len(log) + 1],
                        trigger |-> trigger]
             /\ cmdLog' = cmdLog \o cmds
             /\ execLog' = Append(log, Execution(r, "trigger", h.seq, cmds, Len(cmdLog)))
             /\ settled' = settled
             /\ handled' = hd

\* The consumer callback is called with a trigger message that parses.
TriggerReceive(trigger) ==
    /\ autoChannel = "open"
    /\ trH.h.pc = "idle"
    /\ msgs < MaxMsgs
    /\ msgs' = msgs + 1
    /\ trH' = [h |-> [IdleHandler EXCEPT !.pc = "find", !.seq = msgs + 1],
               trigger |-> trigger]
    /\ handled' = Append(handled, Taken("trigger", trigger.userId, trigger.type, 0, Absent))
    /\ UNCHANGED <<autoChannel, enabled, lastExecuted, cmdLog, cmdHead, autoEvents, evH,
                   execLog, settled, notifVars, condVars, deviceVars, sessionVars, deliveryVars, auxVars, brokerVars,
                   extVars>>

\* The consumer callback is called with content that does not parse:
\* JSON.parse is outside the try block, so the callback rejects before any ack.
TriggerMalformed ==
    /\ autoChannel = "open"
    /\ msgs < MaxMsgs
    /\ msgs' = msgs + 1
    /\ settled' = Settle("automation.trigger", FALSE, "none")
    /\ handled' = Failed(Append(handled, Taken("trigger", Null, "none", 0, Absent)), msgs + 1, "parse")
    /\ oddPayload' = Odd("automation.trigger", "unparsable", "raised")
    /\ UNCHANGED <<autoChannel, enabled, lastExecuted, cmdLog, cmdHead, autoEvents, evH, trH,
                   execLog, notifVars, condVars, deviceVars, sessionVars, deliveryVars,
                   normIn, normOut, partHead, brokerVars, extVars>>

\* `await Automation.find(...)` returns (ok) or throws (caught; the ack
\* after the catch still runs).
TriggerFindDone(ok) ==
    /\ trH.h.pc = "find"
    /\ IF ok
       THEN TriggerContinue([trH.h EXCEPT !.autos = FindForTrigger(trH.trigger)],
                            trH.trigger, 1, execLog, Fetched(handled, trH.h.seq))
       ELSE /\ trH' = TrIdle
            /\ settled' = Settle("automation.trigger", FALSE, "ack")
            /\ handled' = Failed(handled, trH.h.seq, "find")
            /\ UNCHANGED <<cmdLog, execLog>>
    /\ UNCHANGED <<autoChannel, enabled, lastExecuted, cmdHead, autoEvents, evH, msgs,
                   notifVars, condVars, deviceVars, sessionVars, deliveryVars, auxVars, brokerVars,
                   extVars>>

\* `await automation.save()` returns (ok) or throws (caught; the ack after
\* the catch still runs).
TriggerSaveDone(ok) ==
    /\ trH.h.pc = "save"
    /\ IF ok
       THEN /\ lastExecuted' = [lastExecuted EXCEPT ![trH.h.autos[trH.h.i]] = trH.h.seq]
            /\ TriggerContinue(trH.h, trH.trigger, trH.h.i + 1,
                               [execLog EXCEPT ![trH.h.x].saved = TRUE,
                                               ![trH.h.x].status = "done"],
                               handled)
       ELSE /\ trH' = TrIdle
            /\ settled' = Settle("automation.trigger", FALSE, "ack")
            /\ execLog' = [execLog EXCEPT ![trH.h.x].status = "failed"]
            /\ handled' = Failed(handled, trH.h.seq, "save")
            /\ UNCHANGED <<lastExecuted, cmdLog>>
    /\ UNCHANGED <<autoChannel, enabled, cmdHead, autoEvents, evH, msgs,
                   notifVars, condVars, deviceVars, sessionVars, deliveryVars, auxVars, brokerVars,
                   extVars>>

\* ----------------------------------------------- device service actions
\* A device.command consumer that also publishes device.state_changed for the
\* state it stored.
DeviceCommandConsumer_Publishes(ok) ==
    /\ cmdHead < Len(cmdLog)
    /\ LET command == cmdLog[cmdHead + 1]
       IN  IF ok
           THEN /\ deviceState' = [d \in DeviceIds |->
                                     IF d = command.deviceId THEN command.state
                                     ELSE deviceState[d]]
                /\ statusLog' = Append(statusLog,
                       [deviceId |-> command.deviceId, status |-> "success",
                        state |-> command.state])
                /\ devEvents' = Append(devEvents,
                       [type |-> "device.state_changed", userId |-> 1,
                        deviceId |-> command.deviceId, state |-> Obj(command.state)])
           ELSE UNCHANGED <<deviceState, statusLog, devEvents>>
    /\ cmdHead' = cmdHead + 1
    /\ settled' = Settle("device.command", ok, "ack")
    /\ UNCHANGED <<autoChannel, enabled, lastExecuted, cmdLog, autoEvents, evH, trH, msgs,
                   execLog, handled, statusHead, notifVars, condVars, sessionVars, deliveryVars,
                   auxVars, brokerVars, live, kafkaHandlers, kafkaPending, lastCrash, poison,
                   lastPut, devHead>>

\* The device.command consumer: UPDATE devices SET state (ok, or the query
\* throws and is caught), the status message, and the ack after the try block.
DeviceCommandConsumer(ok) ==
    /\ cmdHead < Len(cmdLog)
    /\ LET command == cmdLog[cmdHead + 1]
       IN  IF ok
           THEN /\ deviceState' = [d \in DeviceIds |->
                                     IF d = command.deviceId THEN command.state
                                     ELSE deviceState[d]]
                /\ statusLog' = Append(statusLog,
                       [deviceId |-> command.deviceId, status |-> "success",
                        state |-> command.state])
           ELSE UNCHANGED <<deviceState, statusLog>>
    /\ cmdHead' = cmdHead + 1
    /\ settled' = Settle("device.command", ok, "ack")
    /\ UNCHANGED <<autoChannel, enabled, lastExecuted, cmdLog, autoEvents, evH, trH, msgs,
                   execLog, handled, statusHead, notifVars, condVars, sessionVars, deliveryVars, auxVars, brokerVars,
                   extVars>>

\* PUT /api/devices/:id/state by user u for id d. A state that is not an
\* object is answered 400. Otherwise the Device Command is sent first, when
\* the channel exists and is open (a send on a closed channel throws and is
\* caught); then UPDATE ... WHERE id AND user_id runs (or throws, fail =
\* "query": 500); no row means 404; otherwise device.state_changed is
\* published (or the send throws and is caught, fail = "publish") and the
\* reply is 200. The stored state of the devices in DeviceIds is followed.
PutState(u, d, st, valid, fail) ==
    /\ lastPut.n < MaxMsgs
    /\ LET queued == valid /\ rabbit["device"] = "up"
           owned == d \in DOMAIN DeviceOwner /\ DeviceOwner[d] = u
           done  == valid /\ fail # "query" /\ owned
       IN  /\ cmdLog' = IF queued
                        THEN Append(cmdLog, [deviceId |-> d, state |-> st, automationId |-> Null])
                        ELSE cmdLog
           /\ deviceState' = [x \in DeviceIds |-> IF done /\ x = d THEN st ELSE deviceState[x]]
           /\ lastPut' = [n |-> lastPut.n + 1, userId |-> u, deviceId |-> d,
                          status |-> IF ~valid THEN 400 ELSE IF fail = "query" THEN 500
                                     ELSE IF owned THEN 200 ELSE 404,
                          sent |-> queued, published |-> done /\ fail = "none",
                          before |-> deviceState]
           /\ devEvents' = IF done /\ fail = "none"
                           THEN Append(devEvents, [type |-> "device.state_changed", userId |-> u,
                                                   deviceId |-> d, state |-> Obj(st)])
                           ELSE devEvents
    /\ UNCHANGED <<autoChannel, enabled, lastExecuted, cmdHead, autoEvents, evH, trH, msgs,
                   execLog, settled, handled, statusLog, statusHead, notifVars, condVars,
                   sessionVars, deliveryVars, auxVars, brokerVars, live, kafkaHandlers,
                   kafkaPending, lastCrash, poison, devHead>>

\* The stored states after the UPDATE of each action from position i on, in
\* the order of the list; the queries at the positions in fails throw and are
\* caught.
RECURSIVE ApplyActions(_, _, _, _)
ApplyActions(st, actions, i, fails) ==
    IF i > Len(actions) THEN st
    ELSE ApplyActions(IF i \in fails \/ actions[i].deviceId \notin DeviceIds THEN st
                      ELSE [st EXCEPT ![actions[i].deviceId] = actions[i].state],
                      actions, i + 1, fails)

\* The device service's eachMessage with the next message of
\* automation-events: for automation.executed, one UPDATE per action.
DeviceEventConsumer(fails) ==
    /\ devHead < Len(autoEvents)
    /\ LET event == autoEvents[devHead + 1]
       IN  /\ fails \subseteq 1 .. Len(event.actions)
           /\ deviceState' = IF event.type = "automation.executed"
                             THEN ApplyActions(deviceState, event.actions, 1, fails)
                             ELSE deviceState
    /\ devHead' = devHead + 1
    /\ UNCHANGED <<engineVars, statusLog, statusHead, notifVars, condVars, sessionVars,
                   deliveryVars, auxVars, brokerVars, live, kafkaHandlers, kafkaPending,
                   lastCrash, poison, lastPut, devEvents>>

\* The device.command consumer is handed content that does not parse:
\* JSON.parse is outside the try block and the callback rejects before the ack.
DeviceCommandMalformed ==
    /\ settled' = Settle("device.command", FALSE, "none")
    /\ oddPayload' = Odd("device.command", "unparsable", "raised")
    /\ UNCHANGED <<autoChannel, enabled, lastExecuted, cmdLog, cmdHead, autoEvents, evH, trH,
                   msgs, execLog, handled, notifVars, condVars, deviceVars, sessionVars,
                   deliveryVars, normIn, normOut, partHead, brokerVars, extVars>>

\* The device service's eachMessage is handed content that does not parse
\* (or parses to null): JSON.parse and `event.type` are outside any try
\* block, so the callback rejects.
DeviceEventUnparsable ==
    /\ oddPayload' = Odd("device.eachMessage", "unparsable", "raised")
    /\ UNCHANGED <<notifVars, condVars, engineVars, deviceVars, sessionVars, deliveryVars,
                   normIn, normOut, partHead, brokerVars, extVars>>

\* The automation service's eachMessage is handed content that does not
\* parse: the catch block around the whole callback logs the error.
AutoEventUnparsable ==
    /\ oddPayload' = Odd("automation.eachMessage", "unparsable", "returned")
    /\ UNCHANGED <<notifVars, condVars, engineVars, deviceVars, sessionVars, deliveryVars,
                   normIn, normOut, partHead, brokerVars, extVars>>

\* The notification service's eachMessage on process p is handed content
\* that does not parse: the catch block around the whole callback logs it.
KafkaUnparsable(p) ==
    /\ oddPayload' = Odd("notification.eachMessage", "unparsable", "returned")
    /\ UNCHANGED <<notifVars, condVars, engineVars, deviceVars, sessionVars, deliveryVars,
                   normIn, normOut, partHead, brokerVars, extVars>>

\* The redisSub callback of process p is handed content that does not parse
\* (or parses to null): its catch block logs the error.
RelayUnparsable(p) ==
    /\ oddPayload' = Odd("relay", "unparsable", "returned")
    /\ UNCHANGED <<notifVars, condVars, engineVars, deviceVars, sessionVars, deliveryVars,
                   normIn, normOut, partHead, brokerVars, extVars>>

\* ---------------------- notification service: device.status consumer
\* The Notification built from a status message (the device service sends
\* no userId).
StatusNotification(data) == [type |-> "device.status", userId |-> Null, broadcast |-> FALSE]

\* rabbitChannel.consume('device.status') on process p: sendToUser, then
\* publishNotification (which catches a publish error), then ack.
StatusConsumer(p, ok) ==
    /\ statusHead < Len(statusLog)
    /\ Len(ingested) < MaxNotifs
    /\ LET nt == StatusNotification(statusLog[statusHead + 1])
       IN  Dispatch(p, nt, Call("sendToUser", p, nt.userId, SendToUserTargets(p, nt.userId)), ok)
    /\ statusHead' = statusHead + 1
    /\ settled' = Settle("device.status", ok, "ack")
    /\ UNCHANGED <<connProc, readyState, wsUserId, isAlive, clients, condVars,
                   autoChannel, enabled, lastExecuted, cmdLog, cmdHead, autoEvents, evH, trH,
                   msgs, execLog, handled, deviceState, statusLog, sessionVars, sendFails,
                   autoHead, auxVars, brokerVars, extVars>>

\* The consumer is handed content that does not parse, for the first time or
\* again: the catch block nacks the message, which puts it back on the queue
\* (poison = 1), from where it is delivered again.
StatusMalformed(p) ==
    /\ settled' = Settle("device.status", FALSE, "nack")
    /\ oddPayload' = Odd("device.status", "unparsable", "returned")
    /\ poison' = 1
    /\ UNCHANGED <<autoChannel, enabled, lastExecuted, cmdLog, cmdHead, autoEvents, evH, trH,
                   msgs, execLog, handled, notifVars, condVars, deviceVars, sessionVars,
                   deliveryVars, normIn, normOut, partHead, brokerVars, live, kafkaHandlers,
                   kafkaPending, lastCrash, lastPut, devHead, devEvents>>

Event(t, u, d, st) == [type |-> t, userId |-> u, deviceId |-> d, state |-> st]
EventInputs ==
    {Event("device.state_changed", 1, 3, Obj(On(TRUE))),
     Event("device.state_changed", 1, 3, Obj(On(FALSE))),
     Event("device.state_changed", 1, 3, Absent),
     Event("device.state_changed", 1, 4, Obj(On(TRUE))),
     Event("device.state_changed", 7, 3, Obj(On(TRUE))),
     Event("device.added", 1, 3, Obj(On(TRUE)))}
TriggerInputs == [userId : Users, type : {"time", "device"}]

\* The automation service: both execution paths and the rule toggle.
NextEngine ==
    \/ AutoConnectRabbitMQ
    \/ \E r \in RuleIds : Toggle(r)
    \/ \E e \in EventInputs : EventReceive(e)
    \/ \E ok \in BOOLEAN : EventFindDone(ok)
    \/ \E ok \in BOOLEAN : EventSendDone(ok)
    \/ \E ok \in BOOLEAN : EventSaveDone(ok)
    \/ \E t \in TriggerInputs : TriggerReceive(t)
    \/ \E ok \in BOOLEAN : TriggerFindDone(ok)
    \/ \E ok \in BOOLEAN : TriggerSaveDone(ok)

\* The three queue consumers: automation.trigger (automation service),
\* device.command (device service), device.status (notification service),
\* fed with the messages this repository's producers send, and with content
\* that fails inside the try block of the one consumer that parses there.
NextQueues ==
    \/ AutoConnectRabbitMQ
    \/ \E t \in TriggerInputs : TriggerReceive(t)
    \/ \E ok \in BOOLEAN : TriggerFindDone(ok)
    \/ \E ok \in BOOLEAN : TriggerSaveDone(ok)
    \/ \E ok \in BOOLEAN : DeviceCommandConsumer(ok)
    \/ \E p \in Procs, ok \in BOOLEAN : StatusConsumer(p, ok)
    \/ \E p \in Procs : StatusMalformed(p)

SpecQueues == Init /\ [][NextQueues]_vars

\* Every consumer is handed the messages of its queue, and a message that
\* was put back on its queue is delivered again.
FairQueues ==
    /\ SpecQueues
    /\ WF_vars(\E ok \in BOOLEAN : DeviceCommandConsumer(ok))
    /\ WF_vars(\E p \in Procs, ok \in BOOLEAN : StatusConsumer(p, ok))
    /\ WF_vars(\E p \in Procs : StatusMalformed(p))

\* ------------------------------------------------ payloads of any shape
\* Events of a shape the notification service's switch does not expect.
OddEvents ==
    {[type |-> "firmware.updated", userId |-> 1],
     [type |-> "device.added", userId |-> 1],
     [type |-> "device.state_changed", userId |-> Null]}

\* Frames that do not parse or lack a field.
OddFrames == {"unparsable", "authenticate-without-userId"}

\* Every consumer callback, handed payloads that do not parse or lack fields.
NextPayload ==
    \/ \E c \in Conns, p \in Procs : Accept(c, p)
    \/ \E c \in Conns, f \in OddFrames : OnMessage(c, f)
    \/ \E p \in Procs, e \in OddEvents : KafkaEachMessage(p, e, TRUE)
    \/ \E p \in Procs : KafkaUnparsable(p)
    \/ \E p \in Procs : RelayUnparsable(p)
    \/ \E p \in Procs : StatusMalformed(p)
    \/ AutoEventUnparsable
    \/ DeviceEventUnparsable
    \/ DeviceCommandMalformed
    \/ AutoConnectRabbitMQ
    \/ TriggerMalformed

SpecPayload == Init /\ [][NextPayload]_vars

SpecEngine == Init /\ [][NextEngine]_vars

\* The automation service with its execute endpoint: every operation that
\* sends Device Commands, and the rule toggle.
NextManual ==
    \/ AutoConnectRabbitMQ
    \/ \E r \in RuleIds : Toggle(r)
    \/ \E u \in Users, r \in RuleIds, ok \in BOOLEAN : Execute(u, r, ok)
    \/ \E e \in EventInputs : EventReceive(e)
    \/ \E ok \in BOOLEAN : EventFindDone(ok)
    \/ \E ok \in BOOLEAN : EventSendDone(ok)
    \/ \E ok \in BOOLEAN : EventSaveDone(ok)
    \/ \E t \in TriggerInputs : TriggerReceive(t)
    \/ \E ok \in BOOLEAN : TriggerFindDone(ok)
    \/ \E ok \in BOOLEAN : TriggerSaveDone(ok)

SpecManual == Init /\ [][NextManual]_vars

\* ------------------------------------------------- the device service
PutStates == {On(TRUE), On(FALSE)}

\* The device service: its connection to the queue broker, the state
\* endpoint and the device.command consumer.
NextDevice ==
    \/ ConnectRabbitMQ("device")
    \/ \E e \in BOOLEAN : ConnectionLost("device", e)
    \/ \E u \in Users, d \in DeviceIds \cup {MissingDevice}, st \in PutStates,
          valid \in BOOLEAN, fail \in {"none", "query", "publish"} : PutState(u, d, st, valid, fail)
    \/ \E ok \in BOOLEAN : DeviceCommandConsumer(ok)

SpecDevice == Init /\ [][NextDevice]_vars

\* ------------------------------------------------ event to notification
\* eachMessage on process p with the next message of automation-events, the
\* topic the automation service publishes to.
AutoEventConsumer(p, ok) ==
    /\ autoHead < Len(autoEvents)
    /\ Len(ingested) < MaxNotifs
    /\ EachMessage(p, [type |-> autoEvents[autoHead + 1].type,
                       userId |-> autoEvents[autoHead + 1].userId], ok)
    /\ autoHead' = autoHead + 1
    /\ UNCHANGED <<connProc, readyState, wsUserId, isAlive, clients, condVars, engineVars,
                   deviceVars, sessionVars, sendFails, auxVars, brokerVars, extVars>>

\* The state change of device 3 of user 7 that rule 4 is triggered by.
E2EEvent == Event("device.state_changed", 7, 3, Obj(On(TRUE)))

\* The device service publishes the state change to device-events and the
\* automation service's eachMessage takes it.
StateChangePublished ==
    /\ msgs < MaxNotifs
    /\ EventReceive(E2EEvent)

\* Event to notification: the event path of the automation service, the
\* notification service consuming automation-events, and its connections.
\* As many state changes are published as notifications are followed.
NextE2E ==
    \/ \E c \in Conns, p \in Procs : Accept(c, p)
    \/ \E c \in Conns, u \in Users : Authenticate(c, u)
    \/ \E c \in Conns : OnClose(c)
    \/ AutoConnectRabbitMQ
    \/ StateChangePublished
    \/ \E ok \in BOOLEAN : EventFindDone(ok)
    \/ \E ok \in BOOLEAN : EventSendDone(ok)
    \/ \E ok \in BOOLEAN : EventSaveDone(ok)
    \/ \E p \in Procs, ok \in BOOLEAN : AutoEventConsumer(p, ok)
    \/ \E p \in Procs : RelaySubscriber(p)

SpecE2E == Init /\ [][NextE2E]_vars

\* ------------------------------------------------ rules to stored state
MaxActions == 2

\* Rules to stored state: both execution paths of the automation service and
\* the two consumers of the device service that write the stored state.
NextConverge ==
    \/ AutoConnectRabbitMQ
    \/ \E e \in EventInputs : EventReceive(e)
    \/ \E ok \in BOOLEAN : EventFindDone(ok)
    \/ \E ok \in BOOLEAN : EventSendDone(ok)
    \/ \E ok \in BOOLEAN : EventSaveDone(ok)
    \/ \E t \in TriggerInputs : TriggerReceive(t)
    \/ \E ok \in BOOLEAN : TriggerFindDone(ok)
    \/ \E ok \in BOOLEAN : TriggerSaveDone(ok)
    \/ \E ok \in BOOLEAN : DeviceCommandConsumer(ok)
    \/ \E fails \in SUBSET (1 .. MaxActions) : DeviceEventConsumer(fails)

SpecConverge == Init /\ [][NextConverge]_vars

\* ------------------------------------------------ state change to rules
\* The automation service's eachMessage takes the next message of
\* device-events.
StateChangeTaken ==
    /\ msgs < Len(devEvents)
    /\ EventReceive(devEvents[msgs + 1])

\* A state request with a state that is an object. As many requests are made
\* as notifications are followed elsewhere.
CascadePut(u, d, st, fail) ==
    /\ lastPut.n < MaxNotifs
    /\ PutState(u, d, st, TRUE, fail)

\* State change to rules and back: the state endpoint publishes
\* device.state_changed, the event path of the automation service executes
\* the matching rules, and the two consumers of the device service take the
\* commands and the automation.executed events.
NextCascade ==
    \/ ConnectRabbitMQ("device")
    \/ AutoConnectRabbitMQ
    \/ \E u \in Users, d \in DOMAIN DeviceOwner, st \in PutStates, fail \in {"none", "query", "publish"} :
          CascadePut(u, d, st, fail)
    \/ StateChangeTaken
    \/ \E ok \in BOOLEAN : EventFindDone(ok)
    \/ \E ok \in BOOLEAN : EventSendDone(ok)
    \/ \E ok \in BOOLEAN : EventSaveDone(ok)
    \/ \E ok \in BOOLEAN : DeviceCommandConsumer(ok)
    \/ \E fails \in SUBSET (1 .. MaxActions) : DeviceEventConsumer(fails)

SpecCascade == Init /\ [][NextCascade]_vars

\* ------------------------------------------------ command to status
\* A state request that is answered 200 or 404. As many requests are made as
\* notifications are followed.
StatusPut(u, d, st) ==
    /\ Len(cmdLog) < MaxNotifs
    /\ PutState(u, d, st, TRUE, "none")

\* Command to status notification: the state endpoint and the device.command
\* consumer of the device service, the device.status consumer of the
\* notification service, and its connections.
NextStatus ==
    \/ \E c \in Conns, p \in Procs : Accept(c, p)
    \/ \E c \in Conns, u \in Users : Authenticate(c, u)
    \/ ConnectRabbitMQ("device")
    \/ \E u \in Users, d \in DeviceIds, st \in PutStates : StatusPut(u, d, st)
    \/ \E ok \in BOOLEAN : DeviceCommandConsumer(ok)
    \/ \E p \in Procs, ok \in BOOLEAN : StatusConsumer(p, ok)
    \/ \E p \in Procs : RelaySubscriber(p)

SpecStatus == Init /\ [][NextStatus]_vars

\* Every queued command and status message is consumed and every relayed
\* message is handled.
FairStatus ==
    /\ SpecStatus
    /\ WF_vars(\E ok \in BOOLEAN : DeviceCommandConsumer(ok))
    /\ WF_vars(\E p \in Procs, ok \in BOOLEAN : StatusConsumer(p, ok))
    /\ \A p \in Procs : WF_vars(RelaySubscriber(p))

\* Every handler that was started runs on, the channel is eventually created,
\* every message of automation-events is consumed and every relayed message
\* handled.
FairE2E ==
    /\ SpecE2E
    /\ WF_vars(AutoConnectRabbitMQ)
    /\ WF_vars(\E ok \in BOOLEAN : EventFindDone(ok))
    /\ WF_vars(\E ok \in BOOLEAN : EventSendDone(ok))
    /\ WF_vars(\E ok \in BOOLEAN : EventSaveDone(ok))
    /\ WF_vars(\E p \in Procs, ok \in BOOLEAN : AutoEventConsumer(p, ok))
    /\ \A p \in Procs : WF_vars(RelaySubscriber(p))

\* ------------------------------------------- checkConditions on its own
InitCond ==
    /\ NotifInit /\ EngineInit /\ DeviceInit /\ SessionInit /\ DeliveryInit
    /\ AuxInit /\ BrokerInit /\ ExtInit
    /\ condIn \in ConditionArgs
    /\ stateIn \in StateArgs
    /\ condOut = [done |-> FALSE, value |-> FALSE]

\* One call checkConditions(condIn, stateIn).
CallCheckConditions ==
    /\ ~condOut.done
    /\ condOut' = [done |-> TRUE, value |-> checkConditions(condIn, stateIn)]
    /\ UNCHANGED <<condIn, stateIn, notifVars, engineVars, deviceVars, sessionVars,
                   deliveryVars, auxVars, brokerVars, extVars>>

NextCond == CallCheckConditions

SpecCond == InitCond /\ [][NextCond]_vars

\* ------------------------------------------- normalization, in isolation
\* The events given to the switch: every recognized type and an unknown one,
\* with and without a user id and a `device` object, and the clock reading
\* that becomes the Notification's timestamp.
Clock == {1, 2}
NormalizeArgs ==
    {[type |-> t, userId |-> u] : t \in KnownTypes \cup {"firmware.updated"},
                                  u \in Users \cup {Null}}
    \cup {[type |-> t, userId |-> u, device |-> "lamp"] :
             t \in KnownTypes \cup {"firmware.updated"}, u \in Users \cup {Null}}

InitNormalize ==
    /\ NotifInit /\ CondIdle /\ EngineInit /\ DeviceInit /\ SessionInit /\ DeliveryInit
    /\ BrokerInit /\ ExtInit
    /\ oddPayload = [h \in Handlers |-> NoOddPayload]
    /\ normIn \in NormalizeArgs
    /\ normOut = [done |-> FALSE, value |-> NoNotification, timestamp |-> 0]
    /\ partHead = 0

\* The switch applied to the event, at clock reading now.
CallNormalize(now) ==
    /\ ~normOut.done
    /\ normOut' = [done |-> TRUE, value |-> Normalize(normIn), timestamp |-> now]
    /\ UNCHANGED <<notifVars, condVars, engineVars, deviceVars, sessionVars, deliveryVars,
                   oddPayload, normIn, partHead, brokerVars, extVars>>

NextNormalize == \E now \in Clock : CallNormalize(now)

SpecNormalize == InitNormalize /\ [][NextNormalize]_vars

\* ================================================================ claims
\* Notification n is targeted at one user (no broadcast flag, truthy userId).
Targeted(n) == ~ingested[n].notif.broadcast /\ ingested[n].notif.userId # Null

\* Notification n reached the relay and every process has handled it.
Relayed(n) ==
    /\ ingested[n].published
    /\ \A p \in Procs : \A i \in 1 .. Len(relay[p]) : relay[p][i] # n

\* C1: a notification targeted at U and ingested once reaches every open
\* connection of U exactly once, also on the ingesting process once that
\* process has handled its own relayed message.
C1_ExactlyOneCopy ==
    \A n \in 1 .. Len(ingested) :
        (Targeted(n) /\ Relayed(n)) =>
            \A c \in ingested[n].audience :
                readyState[c] = "OPEN" => Copies(c, n) = 1

C3_NoCrossUserWrite ==
    [][\A c \in Conns :
          Len(sent'[c]) > Len(sent[c]) =>
              LET nt == ingested'[sent'[c][Len(sent'[c])]].notif
              IN  nt.broadcast \/ nt.userId = wsUserId[c]]_vars

\* C4: every connection is a member of at most one user's set.
C4_AtMostOneSet == \A c \in Conns : Cardinality(SetsHolding(c)) <= 1

\* C5: after the close handler ran, the connection is in no user's set, and
\* running the unregister logic once more changes nothing.
C5_ClosedInNoSet ==
    \A c \in Conns :
        readyState[c] = "CLOSED" =>
            /\ SetsHolding(c) = {}
            /\ Unregister(clients[connProc[c]], c, wsUserId[c]) = clients[connProc[c]]

\* The keys of the condition map that are compared (all but the device id).
ComparedKeys(cm) == DOMAIN cm \ {"deviceId"}

\* C9: a condition set that is absent, empty or holds only the device-id key
\* never matches, whatever the state payload.
C9_DegenerateNeverMatches ==
    (condOut.done /\ (~condIn.present \/ ComparedKeys(condIn.map) = {})) =>
        ~condOut.value

\* C10: with at least one key other than deviceId, checkConditions is true
\* exactly when the state payload has, under every such key, a value strictly
\* equal (same type, same value) to the condition's.
C10_MatchesIffAllEqual ==
    (condOut.done /\ condIn.present /\ ComparedKeys(condIn.map) # {}) =>
        (condOut.value <=>
            /\ stateIn.present
            /\ \A k \in ComparedKeys(condIn.map) :
                  /\ k \in DOMAIN stateIn.map
                  /\ stateIn.map[k].t = condIn.map[k].t
                  /\ stateIn.map[k].v = condIn.map[k].v)

\* C10 witness: conditions {on: true} were checked against state {on: true}
\* and matched.
C10_Witness ==
    /\ condOut.done /\ condOut.value
    /\ condIn = Obj([k \in {"on"} |-> Bool(TRUE)])
    /\ stateIn = Obj([k \in {"on"} |-> Bool(TRUE)])

\* C6: in every queue consumer a message is acknowledged only if its
\* processing succeeded, and a message whose processing failed is negatively
\* acknowledged.
C6_AckOnlyAfterSuccess ==
    settled.queue # "none" =>
        /\ settled.outcome = "ack" => settled.ok
        /\ ~settled.ok => settled.outcome = "nack"

\* C7: every rule execution started by a device.state_changed event sent
\* exactly the rule's commands, one per action and in the order of the action
\* list, each with the action's deviceId and state and the rule's id.
C7_OneCommandPerAction ==
    \A i \in 1 .. Len(execLog) :
        execLog[i].path = "event" =>
            SubSeq(cmdLog, execLog[i].cmdFrom, execLog[i].cmdTo) = CommandsOf(execLog[i].rule)

\* C8: every rule execution that ran through, on the event path or on the
\* trigger path, published one automation.executed event with the owner's
\* userId and updated lastExecuted.
C8_ExecutionEmitsEvent ==
    \A i \in 1 .. Len(execLog) :
        execLog[i].status = "done" =>
            /\ execLog[i].saved
            /\ lastExecuted[execLog[i].rule] # 0
            /\ execLog[i].event # 0
            /\ autoEvents[execLog[i].event].type = "automation.executed"
            /\ autoEvents[execLog[i].event].automationId = execLog[i].rule
            /\ autoEvents[execLog[i].event].userId = Rules[execLog[i].rule].userId

\* The rules executed for message seq, and the commands of execution x as
\* they are on the device.command queue.
Executed(seq) == {execLog[x].rule : x \in {y \in 1 .. Len(execLog) : execLog[y].seq = seq}}
CommandsSent(x) == SubSeq(cmdLog, execLog[x].cmdFrom, execLog[x].cmdTo)

\* The rules message m matches: owned by its user, enabled when fetched, of
\* its trigger type and, for an event, on its device with conditions met.
MatchedBy(m) ==
    {r \in RuleIds :
        /\ Rules[r].userId = m.userId
        /\ m.enabledAt[r]
        /\ IF m.path = "trigger"
           THEN Rules[r].trigger.type = m.type
           ELSE /\ Rules[r].trigger.type = "device"
                /\ Rules[r].trigger.conditions.present
                /\ "deviceId" \in DOMAIN Rules[r].trigger.conditions.map
                /\ Rules[r].trigger.conditions.map["deviceId"] = Num(m.deviceId)
                /\ checkConditions(Rules[r].trigger.conditions, m.state)}

\* C12: when save() of lastExecuted fails for a rule whose commands were sent,
\* those commands stay on the queue and every rule matched by the same event
\* or trigger message still has its commands enqueued.
C12_SaveFailureDoesNotBlock ==
    \A x \in 1 .. Len(execLog) :
        (/\ execLog[x].status = "failed"
         /\ handled[execLog[x].seq].failedAt = "save"
         /\ execLog[x].cmdTo - execLog[x].cmdFrom + 1 = Len(Rules[execLog[x].rule].actions))
        => /\ CommandsSent(x) = CommandsOf(execLog[x].rule)
           /\ \A r \in MatchedBy(handled[execLog[x].seq]) :
                 \E y \in 1 .. Len(execLog) :
                     /\ execLog[y].seq = execLog[x].seq
                     /\ execLog[y].rule = r
                     /\ CommandsSent(y) = CommandsOf(r)

\* C13: every Device Command on the queue belongs to an execution of a rule
\* whose enabled flag was true when the rules were fetched for its message,
\* and a step of an execution (commands sent, lastExecuted saved) leaves the
\* enabled flags as they are, also when a toggle came in between. The trigger
\* and the action list of a rule are never assigned (Rules is constant).
C13_OnlyEnabledAndOnlyLastExecuted ==
    [][/\ \A k \in 1 .. Len(cmdLog') :
            \E x \in 1 .. Len(execLog') :
                /\ execLog'[x].cmdFrom <= k /\ k <= execLog'[x].cmdTo
                /\ execLog'[x].rule = cmdLog'[k].automationId
                /\ handled'[execLog'[x].seq].fetched
                /\ handled'[execLog'[x].seq].enabledAt[execLog'[x].rule]
       /\ (cmdLog' # cmdLog \/ execLog' # execLog \/ lastExecuted' # lastExecuted)
              => enabled' = enabled]_vars

\* C13 witness: a rule was executed and its lastExecuted saved although it
\* was disabled in between, and a rule of the same owner that was disabled
\* when the rules were fetched was not executed.
C13_Witness ==
    \E x \in 1 .. Len(execLog) :
        /\ execLog[x].status = "done"
        /\ execLog[x].cmdTo >= execLog[x].cmdFrom
        /\ lastExecuted[execLog[x].rule] = execLog[x].seq
        /\ ~enabled[execLog[x].rule]
        /\ \E r \in RuleIds :
              /\ Rules[r].userId = Rules[execLog[x].rule].userId
              /\ Rules[r].trigger.type = Rules[execLog[x].rule].trigger.type
              /\ ~handled[execLog[x].seq].enabledAt[r]
              /\ r \notin Executed(execLog[x].seq)

\* The enabled rules a trigger message (userId, type) selects.
Expected(m) ==
    {r \in RuleIds :
        Rules[r].userId = m.userId /\ m.enabledAt[r] /\ Rules[r].trigger.type = m.type}

C15_HeartbeatTerminatesUnanswered ==
    [][/\ \A p \in Procs : \A c \in Tracked(p) :
            ticks'[p] # ticks[p] =>
                /\ (terminated'[c] = ticks'[p]) <=> (probe[c] = "sent")
                /\ probe[c] # "sent" => (~isAlive'[c] /\ probe'[c] = "sent")
       /\ \A c \in Conns :
            /\ missed'[c] = 2 => terminated'[c] # 0
            /\ (terminated'[c] # 0 /\ readyState'[c] = "CLOSED") =>
                   \A p \in Procs : \A u \in DOMAIN clients'[p] : c \notin clients'[p][u]]_vars

\* C16: a frame other than a valid authenticate frame, received on a
\* connection that is open and not authenticated, is answered with an error
\* reply, and the connection stays open, unauthenticated and unregistered.
C16_UnauthenticatedFrameRejected ==
    [][\A c \in Conns :
          (/\ readyState[c] = "OPEN" /\ wsUserId[c] = Null
           /\ lastReply'[c] # lastReply[c]
           /\ lastReply'[c].frame # "authenticate")
          => /\ lastReply'[c].reply = "error"
             /\ readyState'[c] = "OPEN" /\ wsUserId'[c] = Null
             /\ \A p \in Procs : \A u \in DOMAIN clients'[p] : c \notin clients'[p][u]]_vars

\* C17: for every Notification built by the service, publishNotification was
\* called exactly once, with or without a userId and whatever local delivery
\* reached.
C17_PublishedExactlyOnce ==
    \A n \in 1 .. Len(ingested) : ingested[n].publishCalls = 1

\* The connections of process p that are open and can be written to.
OpenOn(p) == {c \in Conns : connProc[c] = p /\ readyState[c] = "OPEN" /\ c \notin sendFails}

\* C18: a Notification without userId is written to every open connection of
\* the process that ingests it and of every process that takes it from the
\* relay channel, with or without the broadcast flag.
C18_NoUserIdIsBroadcast ==
    [][\A p \in Procs :
          /\ (/\ Len(ingested') = Len(ingested) + 1
              /\ ingested'[Len(ingested')].notif.userId = Null
              /\ ingested'[Len(ingested')].by = p)
             => \A c \in OpenOn(p) : sent'[c] = Append(sent[c], Len(ingested'))
          /\ (/\ relay[p] # << >>
              /\ relay'[p] = Tail(relay[p])
              /\ ingested[Head(relay[p])].notif.userId = Null)
             => \A c \in OpenOn(p) : sent'[c] = Append(sent[c], Head(relay[p]))]_vars

\* C19: a call sendToUser(u, _) on process p writes to exactly the
\* connections of u's set that are open and whose write does not throw, one
\* write each and none elsewhere; it returns true exactly when there is such a
\* connection, and false when u has no entry.
C19_SendToUserWritesAllOpen ==
    [][(lastCall'.id # lastCall.id /\ lastCall'.fn = "sendToUser") =>
          LET p == lastCall'.by
              u == lastCall'.userId
              good == {c \in Conns :
                          /\ connProc[c] = p
                          /\ u \in DOMAIN clients[p] /\ c \in clients[p][u]
                          /\ readyState[c] = "OPEN"
                          /\ c \notin sendFails}
          IN  /\ lastCall'.written = good
              /\ \A c \in Conns :
                    Len(sent'[c]) = Len(sent[c]) + (IF c \in good THEN 1 ELSE 0)
              /\ lastCall'.delivered <=> good # {}
              /\ u \notin DOMAIN clients[p] => ~lastCall'.delivered]_vars

\* C19 witness: sendToUser returned true after writing to one connection of
\* the user's set while the write to another open connection of the set threw.
C19_Witness ==
    /\ lastCall.fn = "sendToUser" /\ lastCall.delivered
    /\ \E c \in lastCall.written : Len(sent[c]) = 1
    /\ \E c \in sendFails :
          /\ readyState[c] = "OPEN" /\ connProc[c] = lastCall.by
          /\ c \in clients[lastCall.by][lastCall.userId]
          /\ sent[c] = << >>

\* C20: a call broadcastToAll(_) on process p writes to exactly the open
\* connections of p that can be written to, authenticated or not, and returns
\* their number.
C20_BroadcastWritesAllOpen ==
    [][(lastCall'.id # lastCall.id /\ lastCall'.fn = "broadcastToAll") =>
          LET p == lastCall'.by
              good == {c \in Conns :
                          connProc[c] = p /\ readyState[c] = "OPEN" /\ c \notin sendFails}
          IN  /\ lastCall'.written = good
              /\ \A c \in Conns :
                    Len(sent'[c]) = Len(sent[c]) + (IF c \in good THEN 1 ELSE 0)
              /\ lastCall'.count = Cardinality(good)]_vars

\* C20 witness: a broadcast was written to two connections of one process,
\* one of them not authenticated, and returned 2.
C20_Witness ==
    /\ lastCall.fn = "broadcastToAll" /\ lastCall.count = 2
    /\ \E c \in lastCall.written : wsUserId[c] = Null /\ Len(sent[c]) = 1
    /\ \E c \in lastCall.written : wsUserId[c] # Null /\ Len(sent[c]) = 1

\* Message s of the automation service is E2EEvent, taken from device-events.
TookE2EEvent(s) ==
    /\ Len(handled) >= s
    /\ handled[s].path = "event" /\ handled[s].type = "device.state_changed"
    /\ handled[s].userId = 7 /\ handled[s].deviceId = 3 /\ handled[s].state = Obj(On(TRUE))

\* The execution of rule 4 for message s put the rule's command on the
\* device.command queue.
CommandEnqueued(s) ==
    \E x \in 1 .. Len(execLog) :
        /\ execLog[x].seq = s /\ execLog[x].rule = 4
        /\ CommandsSent(x) = <<[deviceId |-> 9, state |-> On(TRUE), automationId |-> 4]>>

\* An automation.executed notification for user 7 was built and, unless its
\* publish failed, written to every connection registered under user 7 at
\* that time (a connection of another process may have closed before the
\* relayed copy was handled there).
ExecutedNotified ==
    \E n \in 1 .. Len(ingested) :
        /\ ingested[n].notif.type = "automation.executed"
        /\ ingested[n].notif.userId = 7
        /\ \/ ~ingested[n].published
           \/ \A c \in ingested[n].audience :
                 \/ Copies(c, n) >= 1
                 \/ connProc[c] # ingested[n].by /\ readyState[c] # "OPEN"

\* C11: once the automation service has taken the state change of device 3
\* of user 7, rule 4's command is eventually on the device.command queue and
\* the automation.executed notification written to user 7's connections,
\* unless a call of the handler (find, send, save) failed.
C11_EventToCommandAndNotification ==
    \A s \in 1 .. MaxNotifs :
        (TookE2EEvent(s) /\ enabled[4])
        ~> (/\ Len(handled) >= s
            /\ \/ handled[s].status = "failed"
               \/ CommandEnqueued(s) /\ ExecutedNotified)

\* C21: when the notification service's consumer gets an event whose type is
\* none of the recognized ones, that step writes to no connection, publishes
\* nothing on the relay, leaves the registry (and the record of notifications
\* built) as it was, and the handler returns, so that later messages are
\* consumed.
C21_UnknownTypeIgnored ==
    [][(/\ oddPayload'["notification.eachMessage"] # oddPayload["notification.eachMessage"]
        /\ oddPayload'["notification.eachMessage"].kind = "unknown-type")
       => /\ sent' = sent
          /\ relay' = relay
          /\ clients' = clients
          /\ ingested' = ingested
          /\ oddPayload'["notification.eachMessage"].outcome = "returned"]_vars

\* An event of unknown type was consumed and a later event was turned into a
\* notification that was written to an open registered connection.
C21_Witness ==
    /\ oddPayload["notification.eachMessage"].kind = "unknown-type"
    /\ Len(ingested) = 1
    /\ \E c \in Conns : wsUserId[c] # Null /\ readyState[c] = "OPEN" /\ sent[c] # <<>>

\* C24: an authenticate frame with user u from a connection that is in u's
\* set already leaves the registry as it is: the registration applied to any
\* reachable registry for a connection it holds under u yields that registry,
\* and a step in which such a frame is handled (and answered) changes no set.
C24_ReRegistrationIdempotent ==
    /\ [](\A p \in Procs, c \in Conns, u \in Users :
             (Has(p, u) /\ c \in clients[p][u]) => Register(clients[p], c, u) = clients[p])
    /\ [][\A c \in Conns :
             (/\ lastReply'[c] # lastReply[c]
              /\ lastReply'[c].frame = "authenticate"
              /\ Has(connProc[c], wsUserId'[c])
              /\ c \in clients[connProc[c]][wsUserId'[c]])
             => /\ clients' = clients
                /\ lastReply'[c].reply = "authenticated"]_vars

\* A connection whose latest frame is an authenticate frame is registered
\* under its user, whose set holds a second connection.
C24_Witness ==
    \E c \in Conns :
        /\ lastReply[c].frame = "authenticate"
        /\ wsUserId[c] # Null
        /\ Has(connProc[c], wsUserId[c])
        /\ c \in clients[connProc[c]][wsUserId[c]]
        /\ Cardinality(clients[connProc[c]][wsUserId[c]]) = 2

\* C25: every key of a process's registry maps to a set with at least one
\* connection, so the user count of /api/stats is the number of users with a
\* registered connection; and the close of a connection that is the only one
\* in its user's set removes that user's key.
C25_NoEmptySet ==
    /\ [](\A p \in Procs :
             /\ \A u \in DOMAIN clients[p] : clients[p][u] # {}
             /\ Stats(p).totalUsers =
                    Cardinality({u \in Users : \E c \in Conns : Has(p, u) /\ c \in clients[p][u]})
             /\ \A u \in Stats(p).usersOnline : Stats(p).connectionsPerUser[u] >= 1)
    /\ [][\A c \in Conns :
             (/\ readyState[c] # "CLOSED" /\ readyState'[c] = "CLOSED"
              /\ Has(connProc[c], wsUserId[c])
              /\ clients[connProc[c]][wsUserId[c]] = {c})
             => wsUserId[c] \notin DOMAIN clients'[connProc[c]]]_vars

\* The only connection of a user closed and the user's key is gone, while
\* another user of the same process is still registered.
C25_Witness ==
    \E c \in Conns :
        /\ readyState[c] = "CLOSED"
        /\ wsUserId[c] # Null
        /\ ~Has(connProc[c], wsUserId[c])
        /\ \E u \in Users : Has(connProc[c], u)

\* C30: the Notification the switch builds from an event has the event's
\* type, the event as its data, and either the broadcast flag and no userId
\* (type inventory.updated, and no other) or the event's userId and no
\* broadcast flag; none of these depends on the clock.
C30_NormalizeIsFunctionOfEvent ==
    (normOut.done /\ normOut.value # NoNotification)
    => /\ normIn.type \in KnownTypes
       /\ normOut.value.type = normIn.type
       /\ normOut.value.data = normIn
       /\ normOut.value.broadcast = (normIn.type = "inventory.updated")
       /\ normOut.value.userId = IF normOut.value.broadcast THEN Null ELSE normIn.userId

\* A security.alert event with a user id was normalized at the later clock
\* reading.
C30_Witness ==
    /\ normOut.done
    /\ normOut.timestamp = 2
    /\ normIn.type = "security.alert"
    /\ normIn.userId = 7
    /\ normOut.value.userId = 7
    /\ ~normOut.value.broadcast

\* C26: whatever the payload, no consumer callback raises out of the handler:
\* the latest payload of an unusual shape each handler got was dealt with
\* inside the handler.
C26_NoPayloadRaises ==
    \A h \in Handlers : oddPayload[h].outcome # "raised"

\* C23: when the same device.state_changed message is handled a second time
\* and the handler runs through, every rule the second delivery matches is
\* executed for it again: its full command list is enqueued and an
\* automation.executed event of the rule is emitted for that delivery.
C23_RedeliveryReexecutes ==
    \A s1, s2 \in 1 .. Len(handled) :
        (/\ s1 < s2
         /\ handled[s1].path = "event" /\ handled[s2].path = "event"
         /\ handled[s1].type = "device.state_changed"
         /\ handled[s2].type = handled[s1].type
         /\ handled[s2].userId = handled[s1].userId
         /\ handled[s2].deviceId = handled[s1].deviceId
         /\ handled[s2].state = handled[s1].state
         /\ handled[s2].status = "done")
        => \A r \in MatchedBy(handled[s2]) :
              \E y \in 1 .. Len(execLog) :
                  /\ execLog[y].seq = s2 /\ execLog[y].rule = r
                  /\ CommandsSent(y) = CommandsOf(r)
                  /\ execLog[y].event # 0
                  /\ autoEvents[execLog[y].event].automationId = r

\* The rule a running handler is executing (0: none).
RuleOfEvH == IF evH.h.pc \in {"send", "save"} THEN evH.h.autos[evH.h.i] ELSE 0
RuleOfTrH == IF trH.h.pc = "save" THEN trH.h.autos[trH.h.i] ELSE 0

\* C27: while the event handler and the trigger handler execute the same rule
\* at the same time, each of the two executions has enqueued the rule's full
\* command list, so the list is on the queue twice; and every save() of an
\* execution that returns leaves its own message as the rule's lastExecuted,
\* whichever handler started first.
C27_NoReentrancyGuard ==
    [][/\ (RuleOfEvH' # 0 /\ RuleOfEvH' = RuleOfTrH')
          => /\ evH'.h.x # trH'.h.x
             /\ SubSeq(cmdLog', execLog'[evH'.h.x].cmdFrom, execLog'[evH'.h.x].cmdTo)
                    = CommandsOf(RuleOfEvH')
             /\ SubSeq(cmdLog', execLog'[trH'.h.x].cmdFrom, execLog'[trH'.h.x].cmdTo)
                    = CommandsOf(RuleOfTrH')
       /\ \A x \in 1 .. Len(execLog) :
             (~execLog[x].saved /\ execLog'[x].saved)
             => lastExecuted'[execLog[x].rule] = execLog[x].seq]_vars

\* C28: every execution of the event path that published its
\* automation.executed event or saved lastExecuted has enqueued one Device
\* Command per action of its rule, whatever the state of the channel was.
C28_EventAndSaveImplyCommands ==
    \A x \in 1 .. Len(execLog) :
        (execLog[x].path = "event" /\ (execLog[x].event # 0 \/ execLog[x].saved))
        => /\ execLog[x].cmdTo - execLog[x].cmdFrom + 1 = Len(Rules[execLog[x].rule].actions)
           /\ \A k \in 1 .. Len(Rules[execLog[x].rule].actions) :
                 /\ cmdLog[execLog[x].cmdFrom + k - 1].deviceId
                        = Rules[execLog[x].rule].actions[k].deviceId
                 /\ cmdLog[execLog[x].cmdFrom + k - 1].state
                        = Rules[execLog[x].rule].actions[k].state

\* The position of the first copy of notification n in the transcript of
\* connection c (0: none).
FirstCopy(c, n) ==
    IF \E i \in 1 .. Len(sent[c]) : sent[c][i] = n
    THEN CHOOSE i \in 1 .. Len(sent[c]) :
             sent[c][i] = n /\ \A k \in 1 .. i - 1 : sent[c][k] # n
    ELSE 0

\* C29: for the two events of user 1 in one partition, no connection that
\* was written copies of both notifications got a copy of the second before
\* its first copy of the first, on the ingesting process or behind the relay.
C29_PerKeyOrderPreserved ==
    \A c \in Conns :
        (FirstCopy(c, 1) # 0 /\ FirstCopy(c, 2) # 0) => FirstCopy(c, 1) < FirstCopy(c, 2)

\* C22: whenever a service has no connection to the queue broker, because
\* the first connect has not succeeded yet or because the connection was
\* lost, it eventually has a connection with its consumer registered.
C22_EveryServiceReconnects ==
    \A s \in Services : (rabbit[s] # "up") ~> (rabbit[s] = "up")

\* C36: in the notification service at most one call of connectRabbitMQ is
\* pending and at most one connection with a device.status consumer is open,
\* whatever connection events and connect failures came before.
C36_OneReconnectOneConnection ==
    /\ pending["notification"] <= 1
    /\ live["notification"] <= 1

\* C37: a crash of the notification service's log-broker consumer schedules
\* exactly one call of connectKafka, however many crashes and reconnects came
\* before.
C37_OneReconnectPerCrash ==
    [][kafkaPending' > kafkaPending => kafkaPending' = kafkaPending + 1]_vars

\* C31: a message of device.status that was put back on the queue is
\* eventually acked, so that no message stays on the queue for ever.
C31_EveryStatusMessageSettled == (poison = 1) ~> (poison = 0)

\* C32: a state request answered 404 put no Device Command on device.command,
\* and once every queued command is consumed the stored state of every device
\* is what it was before the request.
C32_NotFoundHasNoEffect ==
    lastPut.status = 404 =>
        /\ ~lastPut.sent
        /\ (cmdHead = Len(cmdLog) => deviceState = lastPut.before)

\* A device.status Notification was written to connection c.
StatusWritten(c) ==
    \E i \in 1 .. Len(sent[c]) : ingested[sent[c][i]].notif.type = "device.status"

\* C33: a status message waiting on device.status is eventually written, as a
\* device.status Notification, to every open connection registered for the
\* owner of its device.
C33_StatusAckReachesOwner ==
    \A c \in Conns, d \in DeviceIds :
        (/\ statusHead < Len(statusLog)
         /\ statusLog[statusHead + 1].deviceId = d
         /\ c \in RegisteredOpen(DeviceOwner[d]))
        ~> StatusWritten(c)

\* Nothing is in progress or waiting: both handlers of the automation service
\* are idle, and device.command and automation-events are consumed.
Quiescent ==
    /\ evH.h.pc = "idle"
    /\ trH.h.pc = "idle"
    /\ cmdHead = Len(cmdLog)
    /\ devHead = Len(autoEvents)

\* The positions of the Device Commands for device d.
CommandsFor(d) == {i \in 1 .. Len(cmdLog) : cmdLog[i].deviceId = d}

\* C34: once the rules are executed and every message is consumed, the stored
\* state of each device a command was enqueued for is the state of the last
\* such command.
C34_StateIsLastCommand ==
    Quiescent =>
        \A d \in DeviceIds :
            CommandsFor(d) # {} =>
                deviceState[d] = cmdLog[CHOOSE i \in CommandsFor(d) :
                                           \A j \in CommandsFor(d) : j <= i].state

\* C35: every Device Command put on device.command carries the id of a rule
\* whose enabled flag is true at that moment.
C35_DisabledRuleSendsNothing ==
    [][\A i \in Len(cmdLog) + 1 .. Len(cmdLog') :
          cmdLog'[i].automationId # Null => enabled[cmdLog'[i].automationId]]_vars

\* C38: the two consumers of the device service add nothing to device-events,
\* so that every device.state_changed event stems from a state request, an
\* ingested event executes each rule at most once, and the number of
\* executions is bounded by the number of state requests.
C38_NoCascade ==
    /\ [](/\ Len(devEvents) <= lastPut.n
          /\ Len(execLog) <= Len(devEvents) * Cardinality(RuleIds)
          /\ \A x, y \in 1 .. Len(execLog) :
                (execLog[x].seq = execLog[y].seq /\ execLog[x].rule = execLog[y].rule)
                    => x = y)
    /\ [][(cmdHead' # cmdHead \/ devHead' # devHead) => devEvents' = devEvents]_vars

\* C38 witness: one state change was published and taken, a rule was
\* executed for it, its commands and its automation.executed event were
\* consumed by the device service, and nothing is left to do.
C38_Witness ==
    /\ Quiescent
    /\ Len(devEvents) = 1
    /\ msgs = 1
    /\ Len(execLog) >= 1
    /\ Len(cmdLog) >= 1
    /\ Len(autoEvents) >= 1

====
